---------------------------- MODULE Spec2Model ----------------------------
(***************************************************************************)
(* A model of pgx's extended-query parameter builder                       *)
(* (extendedQueryBuilder) and of the pgtype codecs it drives: BoolCodec,   *)
(* Float8Codec and TimestamptzCodec, with their encode and scan plans.     *)
(*                                                                         *)
(* Three families of behaviours are specified:                               *)
(*   Spec      - the builder under mixed AppendParam / AppendResultFormat  *)
(*               / Reset calls with a varied set of arguments;             *)
(*   SpecBulk  - the builder under long runs of one call, which is what    *)
(*               drives slice capacities past Reset's thresholds;          *)
(*   CodecSpec - the codecs' plans applied to values, payloads and         *)
(*               targets drawn from bounded sets.                          *)
(*                                                                         *)
(* Go values are modelled as tagged records.  A []byte is a window         *)
(* (arr, off, len, cap) onto a backing array of a heap, so that aliasing   *)
(* between the shared buffer and the payloads cut from it is part of the   *)
(* state.  64-bit integers are eight base-256 limbs, least significant     *)
(* first, and all arithmetic on them wraps modulo 2^64 as Go's does.       *)
(***************************************************************************)
EXTENDS Integers, Sequences, FiniteSets, TLC

VARIABLES
    paramValues,      \* eqb.paramValues     [][]byte : [elems, cap]
    paramValueBytes,  \* eqb.paramValueBytes []byte   : a window on heap
    paramFormats,     \* eqb.paramFormats    []int16  : [elems, cap]
    resultFormats,    \* eqb.resultFormats   []int16  : [elems, cap]
    heap,             \* the backing arrays of every live []byte
    last,             \* the call that produced this state, and its result
    calls,            \* history: the successful AppendParam calls since Reset
    failed,           \* history: an AppendParam failed since the last Reset
    resets,           \* history: number of Reset calls so far
    codec             \* CodecSpec: the plan call made and what it returned

vars == <<paramValues, paramValueBytes, paramFormats, resultFormats, heap,
          last, calls, failed, resets, codec>>

builderVars == <<paramValues, paramValueBytes, paramFormats, resultFormats,
                 heap, last, calls, failed, resets>>

---------------------------------------------------------------------------
(* Bounds of the explored behaviours.                                      *)

MaxParams == 2
MaxResults == 1
MaxResets == 1
MaxBulk == 66
MaxBulkResets == 1

---------------------------------------------------------------------------
(* Program constants.                                                      *)

TextFormatCode == 0
BinaryFormatCode == 1

ParamValuesCapLimit == 64
ParamValueBytesCapLimit == 256
ParamFormatsCapLimit == 64
ResultFormatsCapLimit == 64
ParamValueBytesInitialCap == 128

---------------------------------------------------------------------------
(* 64-bit integers: <<l1, ..., l8>>, l1 the least significant byte.        *)
(* Negative int64 values are in two's complement, so uint64(x) and         *)
(* int64(x) are the same limbs read differently.                           *)
(* Every operator first binds its operands and each intermediate sum to   *)
(* their values (x \in {a}), so that an operand is computed once however   *)
(* many limbs read it.                                                     *)

RECURSIVE NatLimbs(_, _)
NatLimbs(n, i) ==
    IF i > 8 THEN <<>>
    ELSE CHOOSE r \in {<<m % 256>> \o NatLimbs(m \div 256, i + 1) : m \in {n}} : TRUE

RECURSIVE U64AddC(_, _, _, _)
U64AddC(a, b, i, c) ==
    IF i > 8 THEN <<>>
    ELSE CHOOSE r \in {<<s % 256>> \o U64AddC(a, b, i + 1, s \div 256) :
                          s \in {a[i] + b[i] + c}} : TRUE

U64Add(a, b) == CHOOSE r \in {U64AddC(x, y, 1, 0) : x \in {a}, y \in {b}} : TRUE

U64Not(a) ==
    CHOOSE r \in {<<255 - x[1], 255 - x[2], 255 - x[3], 255 - x[4],
                    255 - x[5], 255 - x[6], 255 - x[7], 255 - x[8]>> : x \in {a}} : TRUE

U64Neg(a) == U64Add(U64Not(a), <<1, 0, 0, 0, 0, 0, 0, 0>>)

U64Sub(a, b) == U64Add(a, U64Neg(b))

RECURSIVE U64MulC(_, _, _, _)
U64MulC(a, k, i, c) ==
    IF i > 8 THEN <<>>
    ELSE CHOOSE r \in {<<p % 256>> \o U64MulC(a, k, i + 1, p \div 256) :
                          p \in {a[i] * k + c}} : TRUE

\* a * k modulo 2^64, for 0 <= k < 2^23
U64MulSmall(a, k) == CHOOSE r \in {U64MulC(x, k, 1, 0) : x \in {a}} : TRUE

\* int64(n) for an n that fits the model checker's integers
I64FromInt(n) == IF n >= 0 THEN NatLimbs(n, 1) ELSE U64Neg(NatLimbs(-n, 1))

I64IsNeg(a) == a[8] >= 128

RECURSIVE U64DivC(_, _, _, _)
U64DivC(a, d, i, r) ==
    IF i = 0 THEN [q |-> <<>>, r |-> r]
    ELSE CHOOSE res \in
             {[q |-> rest.q \o <<cur \div d>>, r |-> rest.r] :
                 rest \in {U64DivC(a, d, i - 1, cur % d) : cur \in {r * 256 + a[i]}},
                 cur \in {r * 256 + a[i]}} : TRUE

\* |a| / d and |a| % d, with the sign of a
I64DivMod(a, d) ==
    CHOOSE res \in
        {[neg |-> I64IsNeg(x), qr |-> U64DivC(IF I64IsNeg(x) THEN U64Neg(x) ELSE x, d, 8, 0)] :
            x \in {a}} : TRUE

\* Go's int64 a / d and a % d for a small constant d > 0: the quotient
\* truncates toward zero and the remainder takes the sign of a.
I64DivSmall(a, d) ==
    CHOOSE r \in {IF dm.neg THEN U64Neg(dm.qr.q) ELSE dm.qr.q :
                     dm \in {I64DivMod(a, d)}} : TRUE

I64ModSmall(a, d) ==
    CHOOSE r \in {IF dm.neg THEN 0 - dm.qr.r ELSE dm.qr.r :
                     dm \in {I64DivMod(a, d)}} : TRUE

\* An integer literal of the source, from its decimal digits in groups of
\* six: a * 10^12 + b * 10^6 + c.
I64FromMillions(a, b, c) ==
    U64Add(U64MulSmall(U64Add(U64MulSmall(I64FromInt(a), 1000000), I64FromInt(b)),
                       1000000),
           I64FromInt(c))

\* Go's a / b on int: truncation toward zero (b > 0).
TruncDiv(a, b) == IF a >= 0 THEN a \div b ELSE 0 - ((0 - a) \div b)


---------------------------------------------------------------------------
(* Byte strings.  A Go []byte seen by its contents: nil is kept apart      *)
(* from the empty slice, because a nil payload means SQL NULL.             *)

NilB == [isnil |-> TRUE, b |-> <<>>]

B(bs) == [isnil |-> FALSE, b |-> bs]

\* append(buf, bs...)
AppendB(buf, bs) == [isnil |-> buf.isnil /\ bs = <<>>, b |-> buf.b \o bs]

\* ASCII codes of the characters the codecs read and write
Ch == [zero |-> 48, t |-> 116, f |-> 102, dot |-> 46, minus |-> 45,
       plus |-> 43, colon |-> 58, space |-> 32, Z |-> 90]

StrInfinity == <<105, 110, 102, 105, 110, 105, 116, 121>>
StrNegInfinity == <<Ch.minus>> \o StrInfinity

\* strconv-style decimal digits of n >= 0, most significant first
RECURSIVE DecDigits(_)
DecDigits(n) == IF n < 10 THEN <<Ch.zero + n>> ELSE DecDigits(n \div 10) \o <<Ch.zero + (n % 10)>>

RECURSIVE ZeroPad(_, _)
ZeroPad(ds, w) == IF Len(ds) >= w THEN ds ELSE ZeroPad(<<Ch.zero>> \o ds, w)

\* strconv.FormatInt(n, 10)
FormatInt(n) == IF n < 0 THEN <<Ch.minus>> \o DecDigits(0 - n) ELSE DecDigits(n)

RECURSIVE TrimTrailingZeros(_)
TrimTrailingZeros(ds) ==
    IF ds # <<>> /\ ds[Len(ds)] = Ch.zero
    THEN TrimTrailingZeros(SubSeq(ds, 1, Len(ds) - 1))
    ELSE ds

IsDigit(c) == c >= Ch.zero /\ c <= Ch.zero + 9

RECURSIVE ParseDigits(_, _, _)
ParseDigits(ds, i, acc) ==
    IF i > Len(ds) THEN acc ELSE ParseDigits(ds, i + 1, acc * 10 + (ds[i] - Ch.zero))

AllDigits(ds) == \A i \in 1..Len(ds) : IsDigit(ds[i])

RECURSIVE Pow(_, _)
Pow(b, n) == IF n = 0 THEN 1 ELSE b * Pow(b, n - 1)

---------------------------------------------------------------------------
(* pgio and encoding/binary: big-endian 64-bit integers on the wire.       *)

\* pgio.AppendUint64(buf, n): the most significant byte first
AppendUint64(buf, n) ==
    AppendB(buf, <<n[8], n[7], n[6], n[5], n[4], n[3], n[2], n[1]>>)

\* pgio.AppendInt64(buf, n) is AppendUint64(buf, uint64(n))
AppendInt64(buf, n) == AppendUint64(buf, n)

\* binary.BigEndian.Uint64(src), for len(src) >= 8
BigEndianUint64(src) ==
    <<src[8], src[7], src[6], src[5], src[4], src[3], src[2], src[1]>>

---------------------------------------------------------------------------
(* time.Time: an instant is (seconds since 1970-01-01 UTC as int64,        *)
(* nanoseconds within the second).  Locations do not change the instant.   *)

NanosPerSecond == 1000 * 1000 * 1000

MkTime(sec, nsec) == [sec |-> sec, nsec |-> nsec]

\* the zero time.Time: 0001-01-01 00:00:00 UTC
ZeroTime == MkTime(U64Neg(I64FromMillions(0, 62135, 596800)), 0)

\* time.Unix(sec, nsec): nsec outside [0, 1e9) is carried into sec
TimeUnix(sec, nsec) ==
    LET out == nsec < 0 \/ nsec >= NanosPerSecond
        n   == TruncDiv(nsec, NanosPerSecond)
        s1  == IF out THEN U64Add(sec, I64FromInt(n)) ELSE sec
        ns1 == IF out THEN nsec - n * NanosPerSecond ELSE nsec
    IN  IF ns1 < 0
        THEN MkTime(U64Sub(s1, I64FromInt(1)), ns1 + NanosPerSecond)
        ELSE MkTime(s1, ns1)

\* t.Truncate(time.Microsecond)
TruncateMicrosecond(t) == MkTime(t.sec, t.nsec - (t.nsec % 1000))

\* an int64 that fits the model checker's integers, as such an integer
I64ToInt(a) ==
    LET mag == IF I64IsNeg(a) THEN U64Neg(a) ELSE a
        n   == mag[1] + 256 * mag[2] + 65536 * mag[3] + 16777216 * mag[4]
    IN  IF I64IsNeg(a) THEN 0 - n ELSE n

\* days since 1970-01-01 and second of the day (floor division by 86400)
UnixDays(sec) ==
    LET q == I64ToInt(I64DivSmall(sec, 86400))
        r == I64ModSmall(sec, 86400)
    IN  IF r < 0 THEN [days |-> q - 1, sod |-> r + 86400] ELSE [days |-> q, sod |-> r]

\* the proleptic Gregorian date of a day number (time.Time.Date in UTC)
CivilFromDays(days) ==
    LET z   == days + 719468
        era == z \div 146097
        doe == z - era * 146097
        yoe == (doe - doe \div 1460 + doe \div 36524 - doe \div 146096) \div 365
        doy == doe - (365 * yoe + yoe \div 4 - yoe \div 100)
        mp  == (5 * doy + 2) \div 153
        d   == doy - (153 * mp + 2) \div 5 + 1
        m   == IF mp < 10 THEN mp + 3 ELSE mp - 9
        y   == yoe + era * 400 + (IF m <= 2 THEN 1 ELSE 0)
    IN  [year |-> y, month |-> m, day |-> d]

\* t.UTC().Format(pgTimestamptzSecondFormat), for years 0..: the layout
\* "2006-01-02 15:04:05.999999999Z07:00:00" prints the fraction without
\* trailing zeros (nothing when it is zero) and "Z" for UTC.
FormatTimestamptz(t) ==
    LET ud   == UnixDays(t.sec)
        c    == CivilFromDays(ud.days)
        hh   == ud.sod \div 3600
        mi   == (ud.sod % 3600) \div 60
        ss   == ud.sod % 60
        frac == TrimTrailingZeros(ZeroPad(DecDigits(t.nsec), 9))
    IN  ZeroPad(DecDigits(c.year), 4) \o <<Ch.minus>>
        \o ZeroPad(DecDigits(c.month), 2) \o <<Ch.minus>>
        \o ZeroPad(DecDigits(c.day), 2) \o <<Ch.space>>
        \o ZeroPad(DecDigits(hh), 2) \o <<Ch.colon>>
        \o ZeroPad(DecDigits(mi), 2) \o <<Ch.colon>>
        \o ZeroPad(DecDigits(ss), 2)
        \o (IF frac = <<>> THEN <<>> ELSE <<Ch.dot>> \o frac)
        \o <<Ch.Z>>

---------------------------------------------------------------------------
(* time.Parse for the three timestamptz layouts.  The operator is exact    *)
(* on the texts PostgreSQL and the text encode plan write,                 *)
(* "YYYY-MM-DD HH:MM:SS[.f...]" followed by "Z" or by a zone offset of the *)
(* layout's shape, with one to nine fraction digits; a text that is not of *)
(* that form is a parse error.                                             *)

\* the day number (days since 1970-01-01) of a proleptic Gregorian date
DaysFromCivil(y, m, d) ==
    LET y1  == IF m <= 2 THEN y - 1 ELSE y
        era == y1 \div 400
        yoe == y1 - era * 400
        mp  == IF m > 2 THEN m - 3 ELSE m + 9
        doy == (153 * mp + 2) \div 5 + d - 1
        doe == yoe * 365 + yoe \div 4 - yoe \div 100 + doy
    IN  era * 146097 + doe - 719468

IsLeap(y) == y % 4 = 0 /\ (y % 100 # 0 \/ y % 400 = 0)

DaysIn(y, m) ==
    IF m = 2 THEN (IF IsLeap(y) THEN 29 ELSE 28)
    ELSE IF m \in {4, 6, 9, 11} THEN 30 ELSE 31

\* the number written by the digits s[i..j], or -1 when they are not digits
Num(s, i, j) ==
    IF j <= Len(s) /\ AllDigits(SubSeq(s, i, j))
    THEN ParseDigits(SubSeq(s, i, j), 1, 0) ELSE 0 - 1

RECURSIVE DigitRun(_, _)
DigitRun(s, i) == IF i <= Len(s) /\ IsDigit(s[i]) THEN 1 + DigitRun(s, i + 1) ELSE 0

\* the layouts' zone elements Z07, Z07:00 and Z07:00:00: "Z", or a signed
\* offset of exactly that many characters (3, 6, 9); the offset in seconds
ParseZone(z, width) ==
    IF z = <<Ch.Z>> THEN [ok |-> TRUE, off |-> 0]
    ELSE IF Len(z) # width \/ z[1] \notin {Ch.plus, Ch.minus}
    THEN [ok |-> FALSE, off |-> 0]
    ELSE LET hh  == Num(z, 2, 3)
             mm  == IF width >= 6 THEN Num(z, 5, 6) ELSE 0
             ss  == IF width >= 9 THEN Num(z, 8, 9) ELSE 0
             sep == /\ (width >= 6 => z[4] = Ch.colon)
                    /\ (width >= 9 => z[7] = Ch.colon)
             mag == hh * 3600 + mm * 60 + ss
         IN  IF ~sep \/ hh < 0 \/ mm < 0 \/ ss < 0
             THEN [ok |-> FALSE, off |-> 0]
             ELSE [ok |-> TRUE, off |-> IF z[1] = Ch.minus THEN 0 - mag ELSE mag]

\* time.Parse(layout, s), the layout given by the width of its zone element
ParseTimestamptz(s, width) ==
    LET bad  == [ok |-> FALSE, t |-> ZeroTime]
        y    == Num(s, 1, 4)
        mo   == Num(s, 6, 7)
        d    == Num(s, 9, 10)
        hh   == Num(s, 12, 13)
        mi   == Num(s, 15, 16)
        ss   == Num(s, 18, 19)
        nfr  == IF Len(s) >= 21 /\ s[20] = Ch.dot THEN DigitRun(s, 21) ELSE 0
        nsec == IF nfr = 0 THEN 0
                ELSE ParseDigits(SubSeq(s, 21, 20 + nfr), 1, 0) * Pow(10, 9 - nfr)
        zs   == IF nfr = 0 THEN 20 ELSE 21 + nfr
        zone == ParseZone(SubSeq(s, zs, Len(s)), width)
    IN  IF Len(s) < 20 THEN bad
        ELSE IF \/ s[5] # Ch.minus \/ s[8] # Ch.minus \/ s[11] # Ch.space
                \/ s[14] # Ch.colon \/ s[17] # Ch.colon
        THEN bad
        ELSE IF y < 0 \/ mo < 1 \/ mo > 12 \/ d < 1 \/ hh < 0 \/ hh > 23
                \/ mi < 0 \/ mi > 59 \/ ss < 0 \/ ss > 59 \/ nfr > 9
        THEN bad
        ELSE IF d > DaysIn(y, mo) \/ ~zone.ok THEN bad
        ELSE [ok |-> TRUE,
              t  |-> MkTime(U64Add(U64MulSmall(I64FromInt(DaysFromCivil(y, mo, d)),
                                               86400),
                                   I64FromInt(hh * 3600 + mi * 60 + ss - zone.off)),
                            nsec)]

---------------------------------------------------------------------------
(* float64: the IEEE-754 fields (sign, 11-bit biased exponent, 52-bit      *)
(* fraction).  The fraction is <<n, b1, ..., b6>>: its top 4 bits, then    *)
(* six bytes, most significant first.                                      *)

MkFloat(sign, exp, frac) == [sign |-> sign, exp |-> exp, frac |-> frac]

FloatZero == MkFloat(0, 0, <<0, 0, 0, 0, 0, 0, 0>>)

ExpBias == 1023

\* math.Float64bits(f)
Float64bits(f) ==
    <<f.frac[7], f.frac[6], f.frac[5], f.frac[4], f.frac[3], f.frac[2],
      (f.exp % 16) * 16 + f.frac[1], f.sign * 128 + (f.exp \div 16)>>

\* math.Float64frombits(n)
Float64frombits(n) ==
    MkFloat(n[8] \div 128, (n[8] % 128) * 16 + (n[7] \div 16),
            <<n[7] % 16, n[6], n[5], n[4], n[3], n[2], n[1]>>)

RECURSIVE Log2(_)
Log2(n) == IF n < 2 THEN 0 ELSE 1 + Log2(n \div 2)

RECURSIVE FracBytes(_, _, _)
FracBytes(r, den, i) ==
    IF i = 0 THEN <<>>
    ELSE <<(r * 256) \div den>> \o FracBytes((r * 256) % den, den, i - 1)

\* the float64 whose value is (-1)^sign * m / 2^d, for 0 <= m < 2^20
FloatFromRatio(sign, m, d) ==
    IF m = 0 THEN FloatZero
    ELSE LET k   == Log2(m)
             den == Pow(2, k)
             r   == m - den
         IN  MkFloat(sign, ExpBias + k - d,
                     <<(r * 16) \div den>> \o FracBytes((r * 16) % den, den, 6))

\* float64(n) for an int64 n, |n| < 2^20
FloatFromInt(n) == IF n < 0 THEN FloatFromRatio(1, 0 - n, 0) ELSE FloatFromRatio(0, n, 0)

\* the top 21 bits of the mantissa, the implicit leading 1 included
MantTop(f) == 1048576 + f.frac[1] * 65536 + f.frac[2] * 256 + f.frac[3]

MantLowZero(f) == f.frac[4] = 0 /\ f.frac[5] = 0 /\ f.frac[6] = 0 /\ f.frac[7] = 0

\* int64(f): truncation toward zero, for |f| < 2^21
FloatToInt(f) ==
    LET e == f.exp - ExpBias
        a == IF e < 0 THEN 0 ELSE MantTop(f) \div Pow(2, 20 - e)
    IN  IF f.sign = 1 THEN 0 - a ELSE a

\* the low k bits of the 52-bit fraction are zero
LowBitsZero(f, k) ==
    \A j \in 0..6 :
        LET byte == f.frac[7 - j]
        IN  IF k >= 8 * (j + 1) THEN byte = 0
            ELSE IF k > 8 * j THEN byte % Pow(2, k - 8 * j) = 0
            ELSE TRUE

\* f64 == float64(int64(f64)): f is zero, or an integer within int64
\* (the value -2^63, whose exponent is 63, aside)
FloatIsIntegral(f) ==
    LET e == f.exp - ExpBias
    IN  \/ f.exp = 0 /\ LowBitsZero(f, 52)
        \/ /\ f.exp # 0 /\ e >= 0 /\ e <= 62
           /\ (e < 52 => LowBitsZero(f, 52 - e))

RECURSIVE StripTwos(_, _)
StripTwos(m, sh) ==
    IF sh > 0 /\ m % 2 = 0 THEN StripTwos(m \div 2, sh - 1) ELSE [m |-> m, sh |-> sh]

\* strconv.FormatFloat(f, 'f', -1, 64): the shortest decimal that reads back
\* as f.  For a float m / 2^sh with few bits that is its exact expansion
\* m * 5^sh / 10^sh.  (Floats with |f| < 2^21 and at most 4 binary places.)
FormatFloat(f) ==
    IF f.exp = 0 THEN (IF f.sign = 1 THEN <<Ch.minus>> ELSE <<>>) \o <<Ch.zero>>
    ELSE LET e   == f.exp - ExpBias
             red == StripTwos(MantTop(f), 20 - e)
             num == red.m * Pow(5, red.sh)
             den == Pow(10, red.sh)
         IN  (IF f.sign = 1 THEN <<Ch.minus>> ELSE <<>>)
             \o DecDigits(num \div den)
             \o (IF red.sh = 0 THEN <<>>
                 ELSE <<Ch.dot>> \o ZeroPad(DecDigits(num % den), red.sh))

\* strconv.ParseFloat(s, 64) on the decimal forms [+-]digits[.digits] whose
\* value is a float of few bits; every other text is a syntax error here.
ParseFloat(s) ==
    LET signed == s # <<>> /\ s[1] \in {Ch.minus, Ch.plus}
        sign   == IF signed /\ s[1] = Ch.minus THEN 1 ELSE 0
        body   == IF signed THEN SubSeq(s, 2, Len(s)) ELSE s
        dots   == {i \in 1..Len(body) : body[i] = Ch.dot}
        ip     == IF dots = {} THEN body
                  ELSE SubSeq(body, 1, (CHOOSE i \in dots : TRUE) - 1)
        fp     == IF dots = {} THEN <<>>
                  ELSE SubSeq(body, (CHOOSE i \in dots : TRUE) + 1, Len(body))
        ok     == /\ Cardinality(dots) <= 1
                  /\ AllDigits(ip) /\ AllDigits(fp)
                  /\ Len(ip) + Len(fp) >= 1
        d      == Len(fp)
        p      == ParseDigits(ip \o fp, 1, 0)
    IN  IF ~ok THEN [ok |-> FALSE, f |-> FloatZero]
        ELSE [ok |-> TRUE, f |-> FloatFromRatio(sign, p \div Pow(5, d), d)]

---------------------------------------------------------------------------
(* Go values held in an interface{}: a record tagged with the dynamic      *)
(* type.                                                                   *)

NilValue == [k |-> "nil"]
StringV(s) == [k |-> "string", s |-> s]
IntV(n) == [k |-> "int", n |-> n]
BoolV(b) == [k |-> "bool", b |-> b]
Float64V(f) == [k |-> "float64", f |-> f]
\* a non-nil pointer to v, and the nil pointer of type *T
PtrTo(v) == [k |-> "ptr", elem |-> v]
NilPtrTo(T) == [k |-> "nilptr", of |-> T]
\* a value of a defined type without methods whose underlying value is v
\* (type MyString string)
Named(v) == [k |-> "named", base |-> v]

\* pgtype.InfinityModifier
None == 0
Infinity == 1
NegativeInfinity == 0 - Infinity

\* the wrappers
MkBool(b, valid) == [k |-> "Bool", Bool |-> b, Valid |-> valid]
MkFloat8(f, valid) == [k |-> "Float8", Float |-> f, Valid |-> valid]
MkInt8(n, valid) == [k |-> "Int8", Int |-> n, Valid |-> valid]
MkTimestamptz(t, inf, valid) ==
    [k |-> "Timestamptz", Time |-> t, InfinityModifier |-> inf, Valid |-> valid]

\* the zero values Bool{}, Float8{}, Int8{}, Timestamptz{}
ZeroBool == MkBool(FALSE, FALSE)
ZeroFloat8 == MkFloat8(FloatZero, FALSE)
ZeroInt8 == MkInt8(0, FALSE)
ZeroTimestamptz == MkTimestamptz(ZeroTime, None, FALSE)

\* a caller's type whose valuer method returns an error
FailingValuer(T) == [k |-> "failing", of |-> T]

\* errors
NoErr == "nil"
ErrValuer == "valuer failed"
ErrNoPlan == "cannot find encode plan"
ErrSerialization == "SerializationError"

\* reflect.ValueOf(arg).Kind() == reflect.Ptr
IsPtr(v) == v.k \in {"ptr", "nilptr"}

\* The dynamic type of v is T, or *T whose method set holds T's methods.
HasType(v, T) ==
    \/ v.k = T
    \/ v.k = "failing" /\ v.of = T
    \/ v.k = "ptr" /\ (v.elem.k = T \/ (v.elem.k = "failing" /\ v.elem.of = T))
    \/ v.k = "nilptr" /\ v.of = T

\* value.(BoolValuer), value.(Float64Valuer), value.(Int64Valuer),
\* value.(TimestamptzValuer) succeed
IsBoolValuer(v) == HasType(v, "Bool")
IsFloat64Valuer(v) == HasType(v, "Float8")
IsInt64Valuer(v) == HasType(v, "Int8") \/ HasType(v, "Float8")
IsTimestamptzValuer(v) == HasType(v, "Timestamptz")

\* Calling a value-receiver method through v: Go dereferences a pointer
\* receiver, and panics when it is nil.
Receiver(v) == IF v.k = "ptr" THEN v.elem ELSE v

\* Bool.BoolValue, Float8.Float64Value, Timestamptz.TimestamptzValue
\* (line 456, 778, 146): the wrapper itself, no error.
ValuerCall(v, zero) ==
    LET r == Receiver(v)
    IN  IF r.k = "nilptr" THEN [v |-> zero, err |-> NoErr, panic |-> TRUE]
        ELSE IF r.k = "failing" THEN [v |-> zero, err |-> ErrValuer, panic |-> FALSE]
        ELSE [v |-> r, err |-> NoErr, panic |-> FALSE]

BoolValue(v) == ValuerCall(v, ZeroBool)
Float64Value(v) == ValuerCall(v, ZeroFloat8)
TimestamptzValue(v) == ValuerCall(v, ZeroTimestamptz)

\* Int8.Int64Value, and Float8.Int64Value (line 787): Int8{Int: int64(f.Float)}
Int64Value(v) ==
    LET r == ValuerCall(v, ZeroInt8)
    IN  IF r.v.k = "Float8"
        THEN [r EXCEPT !.v = MkInt8(FloatToInt(r.v.Float), r.v.Valid)]
        ELSE r

---------------------------------------------------------------------------
(* Encode plans.  Encode(value, buf) returns (newBuf, err), or panics on   *)
(* an unchecked type assertion.                                            *)

EncOk(buf) == [buf |-> buf, err |-> NoErr, panic |-> FALSE]
EncErr(e) == [buf |-> NilB, err |-> e, panic |-> FALSE]
EncPanic == [buf |-> NilB, err |-> NoErr, panic |-> TRUE]

\* the common head of the valuer plans: call the valuer, return its error
\* as (nil, err)
ValuerHead(r, rest) ==
    IF r.panic THEN EncPanic ELSE IF r.err # NoErr THEN EncErr(r.err) ELSE rest

microsecFromUnixEpochToY2K == U64MulSmall(I64FromInt(946684800), 1000000)

infinityMicrosecondOffset ==
    I64FromMillions(9223372, 36854, 775807)

negativeInfinityMicrosecondOffset ==
    U64Neg(I64FromMillions(9223372, 36854, 775808))

MicrosecSinceY2KNoEpochShift(t) ==
    U64Add(U64MulSmall(t.sec, 1000000), I64FromInt(t.nsec \div 1000))

\* ts.Time.Unix()*1000000 + int64(ts.Time.Nanosecond())/1000
\*   - microsecFromUnixEpochToY2K, in int64 arithmetic
MicrosecSinceY2K(t) ==
    U64Sub(U64Add(U64MulSmall(t.sec, 1000000), I64FromInt(t.nsec \div 1000)),
           microsecFromUnixEpochToY2K)

encodePlanTimestamptzCodecBinaryEncode(value, buf) ==
    IF ~IsTimestamptzValuer(value) THEN EncPanic
    ELSE LET r  == TimestamptzValue(value)
             ts == r.v
             microsecSinceY2K ==
                 CASE ts.InfinityModifier = None -> MicrosecSinceY2K(ts.Time)
                   [] ts.InfinityModifier = Infinity -> infinityMicrosecondOffset
                   [] ts.InfinityModifier = NegativeInfinity ->
                          negativeInfinityMicrosecondOffset
                   [] OTHER -> I64FromInt(0)
         IN  ValuerHead(r,
                 IF ~ts.Valid THEN EncOk(NilB)
                 ELSE EncOk(AppendInt64(buf, microsecSinceY2K)))

encodePlanTimestamptzCodecTextEncode(value, buf) ==
    IF ~IsTimestamptzValuer(value) THEN EncPanic
    ELSE LET r  == TimestamptzValue(value)
             ts == r.v
             s  == CASE ts.InfinityModifier = None ->
                          FormatTimestamptz(TruncateMicrosecond(ts.Time))
                     [] ts.InfinityModifier = Infinity -> StrInfinity
                     [] ts.InfinityModifier = NegativeInfinity -> StrNegInfinity
                     [] OTHER -> <<>>
         IN  ValuerHead(r, EncOk(AppendB(buf, s)))

encodePlanBoolCodecBinaryBoolEncode(value, buf) ==
    IF value.k # "bool" THEN EncPanic
    ELSE EncOk(AppendB(buf, IF value.b THEN <<1>> ELSE <<0>>))

encodePlanBoolCodecTextBoolValuerEncode(value, buf) ==
    IF ~IsBoolValuer(value) THEN EncPanic
    ELSE LET r == BoolValue(value)
             b == r.v
         IN  ValuerHead(r,
                 IF ~b.Valid THEN EncOk(NilB)
                 ELSE EncOk(AppendB(buf, IF b.Bool THEN <<Ch.t>> ELSE <<Ch.f>>)))

encodePlanBoolCodecBinaryBoolValuerEncode(value, buf) ==
    IF ~IsBoolValuer(value) THEN EncPanic
    ELSE LET r == BoolValue(value)
             b == r.v
         IN  ValuerHead(r,
                 IF ~b.Valid THEN EncOk(NilB)
                 ELSE EncOk(AppendB(buf, IF b.Bool THEN <<1>> ELSE <<0>>)))

encodePlanBoolCodecTextBoolEncode(value, buf) ==
    IF value.k # "bool" THEN EncPanic
    ELSE EncOk(AppendB(buf, IF value.b THEN <<Ch.t>> ELSE <<Ch.f>>))

encodePlanFloat8CodecBinaryFloat64Encode(value, buf) ==
    IF value.k # "float64" THEN EncPanic
    ELSE EncOk(AppendUint64(buf, Float64bits(value.f)))

encodePlanTextFloat64Encode(value, buf) ==
    IF value.k # "float64" THEN EncPanic
    ELSE EncOk(AppendB(buf, FormatFloat(value.f)))

encodePlanFloat8CodecBinaryFloat64ValuerEncode(value, buf) ==
    IF ~IsFloat64Valuer(value) THEN EncPanic
    ELSE LET r == Float64Value(value)
             n == r.v
         IN  ValuerHead(r,
                 IF ~n.Valid THEN EncOk(NilB)
                 ELSE EncOk(AppendUint64(buf, Float64bits(n.Float))))

encodePlanTextFloat64ValuerEncode(value, buf) ==
    IF ~IsFloat64Valuer(value) THEN EncPanic
    ELSE LET r == Float64Value(value)
             n == r.v
         IN  ValuerHead(r,
                 IF ~n.Valid THEN EncOk(NilB)
                 ELSE EncOk(AppendB(buf, FormatFloat(n.Float))))

encodePlanFloat8CodecBinaryInt64ValuerEncode(value, buf) ==
    IF ~IsInt64Valuer(value) THEN EncPanic
    ELSE LET r == Int64Value(value)
             n == r.v
         IN  ValuerHead(r,
                 IF ~n.Valid THEN EncOk(NilB)
                 ELSE EncOk(AppendUint64(buf, Float64bits(FloatFromInt(n.Int)))))

encodePlanTextInt64ValuerEncode(value, buf) ==
    IF ~IsInt64Valuer(value) THEN EncPanic
    ELSE LET r == Int64Value(value)
             n == r.v
         IN  ValuerHead(r,
                 IF ~n.Valid THEN EncOk(NilB)
                 ELSE EncOk(AppendB(buf, FormatInt(n.Int))))

NoPlan == "nil"

\* TimestamptzCodec.PlanEncode
TimestamptzCodecPlanEncode(format, value) ==
    IF ~IsTimestamptzValuer(value) THEN NoPlan
    ELSE CASE format = BinaryFormatCode -> "encodePlanTimestamptzCodecBinary"
           [] format = TextFormatCode -> "encodePlanTimestamptzCodecText"
           [] OTHER -> NoPlan

\* BoolCodec.PlanEncode
BoolCodecPlanEncode(format, value) ==
    CASE format = BinaryFormatCode ->
             (CASE value.k = "bool" -> "encodePlanBoolCodecBinaryBool"
                [] value.k # "bool" /\ IsBoolValuer(value) ->
                       "encodePlanBoolCodecBinaryBoolValuer"
                [] OTHER -> NoPlan)
      [] format = TextFormatCode ->
             (CASE value.k = "bool" -> "encodePlanBoolCodecTextBool"
                [] value.k # "bool" /\ IsBoolValuer(value) ->
                       "encodePlanBoolCodecTextBoolValuer"
                [] OTHER -> NoPlan)
      [] OTHER -> NoPlan

\* Float8Codec.PlanEncode
Float8CodecPlanEncode(format, value) ==
    CASE format = BinaryFormatCode ->
             (CASE value.k = "float64" -> "encodePlanFloat8CodecBinaryFloat64"
                [] value.k # "float64" /\ IsFloat64Valuer(value) ->
                       "encodePlanFloat8CodecBinaryFloat64Valuer"
                [] value.k # "float64" /\ ~IsFloat64Valuer(value)
                   /\ IsInt64Valuer(value) ->
                       "encodePlanFloat8CodecBinaryInt64Valuer"
                [] OTHER -> NoPlan)
      [] format = TextFormatCode ->
             (CASE value.k = "float64" -> "encodePlanTextFloat64"
                [] value.k # "float64" /\ IsFloat64Valuer(value) ->
                       "encodePlanTextFloat64Valuer"
                [] value.k # "float64" /\ ~IsFloat64Valuer(value)
                   /\ IsInt64Valuer(value) ->
                       "encodePlanTextInt64Valuer"
                [] OTHER -> NoPlan)
      [] OTHER -> NoPlan

\* EncodePlan.Encode, dispatched on the plan's type
PlanEncodeRun(plan, value, buf) ==
    CASE plan = "encodePlanTimestamptzCodecBinary" ->
             encodePlanTimestamptzCodecBinaryEncode(value, buf)
      [] plan = "encodePlanTimestamptzCodecText" ->
             encodePlanTimestamptzCodecTextEncode(value, buf)
      [] plan = "encodePlanBoolCodecBinaryBool" ->
             encodePlanBoolCodecBinaryBoolEncode(value, buf)
      [] plan = "encodePlanBoolCodecBinaryBoolValuer" ->
             encodePlanBoolCodecBinaryBoolValuerEncode(value, buf)
      [] plan = "encodePlanBoolCodecTextBool" ->
             encodePlanBoolCodecTextBoolEncode(value, buf)
      [] plan = "encodePlanBoolCodecTextBoolValuer" ->
             encodePlanBoolCodecTextBoolValuerEncode(value, buf)
      [] plan = "encodePlanFloat8CodecBinaryFloat64" ->
             encodePlanFloat8CodecBinaryFloat64Encode(value, buf)
      [] plan = "encodePlanTextFloat64" ->
             encodePlanTextFloat64Encode(value, buf)
      [] plan = "encodePlanFloat8CodecBinaryFloat64Valuer" ->
             encodePlanFloat8CodecBinaryFloat64ValuerEncode(value, buf)
      [] plan = "encodePlanTextFloat64Valuer" ->
             encodePlanTextFloat64ValuerEncode(value, buf)
      [] plan = "encodePlanFloat8CodecBinaryInt64Valuer" ->
             encodePlanFloat8CodecBinaryInt64ValuerEncode(value, buf)
      [] plan = "encodePlanTextInt64Valuer" ->
             encodePlanTextInt64ValuerEncode(value, buf)

---------------------------------------------------------------------------
(* Scan targets and scan plans.  A target is the pointer the caller hands  *)
(* to Scan: the pointer's type and the value of the variable it points to. *)
(* Scan(src, dst) returns the error and leaves the variable as dst; it     *)
(* panics on a failed unchecked type assertion.                            *)

Target(T, v) == [k |-> T, v |-> v]

ErrNullNotAllowed == "cannot scan null into target"
ErrInvalidLength == "invalid length"
ErrScanTargetTypeChanged == "scan target type changed"
ErrLossy == "cannot losslessly convert to int64"
ErrParse == "parse error"

ScanOk(dst) == [dst |-> dst, err |-> NoErr, panic |-> FALSE]
ScanErr(dst, e) == [dst |-> dst, err |-> e, panic |-> FALSE]
ScanPanic(dst) == [dst |-> dst, err |-> NoErr, panic |-> TRUE]

\* dst.(*bool), dst.(*float64) and the scanner interfaces: the pointer
\* types whose method sets hold the scanner method
IsBoolPtr(dst) == dst.k = "*bool"
IsFloat64Ptr(dst) == dst.k = "*float64"
IsBoolScanner(dst) == dst.k = "*Bool"
IsFloat64Scanner(dst) == dst.k = "*Float8"
IsInt64Scanner(dst) == dst.k \in {"*Int8", "*Float8"}
IsTimestamptzScanner(dst) == dst.k = "*Timestamptz"

\* (*Bool).ScanBool, (*Float8).ScanFloat64, (*Timestamptz).ScanTimestamptz
ScanBool(dst, v) == ScanOk([dst EXCEPT !.v = v])
ScanFloat64(dst, n) == ScanOk([dst EXCEPT !.v = n])
ScanTimestamptz(dst, v) == ScanOk([dst EXCEPT !.v = v])

\* (*Float8).ScanInt64
Float8ScanInt64(dst, n) ==
    ScanOk([dst EXCEPT !.v = MkFloat8(FloatFromInt(n.Int), n.Valid)])

\* (*Int8).ScanInt64
Int8ScanInt64(dst, n) == ScanOk([dst EXCEPT !.v = n])

\* s.ScanInt64(n), dispatched on the scanner's type
ScanInt64(dst, n) ==
    IF dst.k = "*Float8" THEN Float8ScanInt64(dst, n) ELSE Int8ScanInt64(dst, n)

scanPlanBinaryTimestamptzToTimestamptzScannerScanNoEpochShift(src, dst) ==
    IF ~IsTimestamptzScanner(dst) THEN ScanPanic(dst)
    ELSE IF src.isnil THEN ScanTimestamptz(dst, ZeroTimestamptz)
    ELSE IF Len(src.b) # 8 THEN ScanErr(dst, ErrInvalidLength)
    ELSE LET microsecSinceY2K == BigEndianUint64(src.b)
             tim == TimeUnix(I64DivSmall(microsecSinceY2K, 1000000),
                             I64ModSmall(microsecSinceY2K, 1000000) * 1000)
         IN  CASE microsecSinceY2K = infinityMicrosecondOffset ->
                      ScanTimestamptz(dst, MkTimestamptz(ZeroTime, Infinity, TRUE))
               [] microsecSinceY2K = negativeInfinityMicrosecondOffset ->
                      ScanTimestamptz(dst, MkTimestamptz(ZeroTime, 0 - Infinity, TRUE))
               [] OTHER -> ScanTimestamptz(dst, MkTimestamptz(tim, None, TRUE))

scanPlanBinaryTimestamptzToTimestamptzScannerScan(src, dst) ==
    IF ~IsTimestamptzScanner(dst) THEN ScanPanic(dst)
    ELSE IF src.isnil THEN ScanTimestamptz(dst, ZeroTimestamptz)
    ELSE IF Len(src.b) # 8 THEN ScanErr(dst, ErrInvalidLength)
    ELSE LET microsecSinceY2K == BigEndianUint64(src.b)
             tim == TimeUnix(
                 U64Add(I64DivSmall(microsecFromUnixEpochToY2K, 1000000),
                        I64DivSmall(microsecSinceY2K, 1000000)),
                 I64ModSmall(microsecFromUnixEpochToY2K, 1000000) * 1000
                 + I64ModSmall(microsecSinceY2K, 1000000) * 1000)
         IN  CASE microsecSinceY2K = infinityMicrosecondOffset ->
                      ScanTimestamptz(dst, MkTimestamptz(ZeroTime, Infinity, TRUE))
               [] microsecSinceY2K = negativeInfinityMicrosecondOffset ->
                      ScanTimestamptz(dst, MkTimestamptz(ZeroTime, 0 - Infinity, TRUE))
               [] OTHER -> ScanTimestamptz(dst, MkTimestamptz(tim, None, TRUE))

scanPlanTextTimestamptzToTimestamptzScannerScan(src, dst) ==
    IF ~IsTimestamptzScanner(dst) THEN ScanPanic(dst)
    ELSE IF src.isnil THEN ScanTimestamptz(dst, ZeroTimestamptz)
    ELSE LET sbuf  == src.b
             n     == Len(sbuf)
             width == IF n >= 9 /\ sbuf[n - 8] \in {Ch.minus, Ch.plus} THEN 9
                      ELSE IF n >= 6 /\ sbuf[n - 5] \in {Ch.minus, Ch.plus} THEN 6
                      ELSE 3
             p     == ParseTimestamptz(sbuf, width)
         IN  CASE sbuf = StrInfinity ->
                      ScanTimestamptz(dst, MkTimestamptz(ZeroTime, Infinity, TRUE))
               [] sbuf = StrNegInfinity ->
                      ScanTimestamptz(dst, MkTimestamptz(ZeroTime, 0 - Infinity, TRUE))
               [] OTHER ->
                      IF ~p.ok THEN ScanErr(dst, ErrParse)
                      ELSE ScanTimestamptz(dst, MkTimestamptz(p.t, None, TRUE))

\* TimestamptzCodec.PlanScan
TimestamptzCodecPlanScan(format, target) ==
    CASE format = BinaryFormatCode /\ IsTimestamptzScanner(target) ->
             "scanPlanBinaryTimestamptzToTimestamptzScanner"
      [] format = TextFormatCode /\ IsTimestamptzScanner(target) ->
             "scanPlanTextTimestamptzToTimestamptzScanner"
      [] OTHER -> NoPlan

scanPlanBinaryBoolToBoolScanShortOnly(src, dst) ==
    IF src.isnil THEN ScanErr(dst, ErrNullNotAllowed)
    ELSE IF Len(src.b) < 1 THEN ScanErr(dst, ErrInvalidLength)
    ELSE IF ~IsBoolPtr(dst) THEN ScanErr(dst, ErrScanTargetTypeChanged)
    ELSE ScanOk([dst EXCEPT !.v = BoolV(src.b[1] = 1)])

scanPlanBinaryBoolToBoolScan(src, dst) ==
    IF src.isnil THEN ScanErr(dst, ErrNullNotAllowed)
    ELSE IF Len(src.b) # 1 THEN ScanErr(dst, ErrInvalidLength)
    ELSE IF ~IsBoolPtr(dst) THEN ScanErr(dst, ErrScanTargetTypeChanged)
    ELSE ScanOk([dst EXCEPT !.v = BoolV(src.b[1] = 1)])

scanPlanTextAnyToBoolScanNullAsFalse(src, dst) ==
    IF src.isnil
    THEN (IF ~IsBoolPtr(dst) THEN ScanErr(dst, ErrScanTargetTypeChanged)
          ELSE ScanOk([dst EXCEPT !.v = BoolV(FALSE)]))
    ELSE IF Len(src.b) # 1 THEN ScanErr(dst, ErrInvalidLength)
    ELSE IF ~IsBoolPtr(dst) THEN ScanErr(dst, ErrScanTargetTypeChanged)
    ELSE ScanOk([dst EXCEPT !.v = BoolV(src.b[1] = Ch.t)])

scanPlanTextAnyToBoolScan(src, dst) ==
    IF src.isnil THEN ScanErr(dst, ErrNullNotAllowed)
    ELSE IF Len(src.b) # 1 THEN ScanErr(dst, ErrInvalidLength)
    ELSE IF ~IsBoolPtr(dst) THEN ScanErr(dst, ErrScanTargetTypeChanged)
    ELSE ScanOk([dst EXCEPT !.v = BoolV(src.b[1] = Ch.t)])

scanPlanBinaryBoolToBoolScannerScan(src, dst) ==
    IF ~IsBoolScanner(dst) THEN ScanErr(dst, ErrScanTargetTypeChanged)
    ELSE IF src.isnil THEN ScanBool(dst, ZeroBool)
    ELSE IF Len(src.b) # 1 THEN ScanErr(dst, ErrInvalidLength)
    ELSE ScanBool(dst, MkBool(src.b[1] = 1, TRUE))

scanPlanTextAnyToBoolScannerScan(src, dst) ==
    IF ~IsBoolScanner(dst) THEN ScanErr(dst, ErrScanTargetTypeChanged)
    ELSE IF src.isnil THEN ScanBool(dst, ZeroBool)
    ELSE IF Len(src.b) # 1 THEN ScanErr(dst, ErrInvalidLength)
    ELSE ScanBool(dst, MkBool(src.b[1] = Ch.t, TRUE))

\* BoolCodec.PlanScan
BoolCodecPlanScan(format, target) ==
    CASE format = BinaryFormatCode /\ IsBoolPtr(target) -> "scanPlanBinaryBoolToBool"
      [] format = BinaryFormatCode /\ ~IsBoolPtr(target) /\ IsBoolScanner(target) ->
             "scanPlanBinaryBoolToBoolScanner"
      [] format = TextFormatCode /\ IsBoolPtr(target) -> "scanPlanTextAnyToBool"
      [] format = TextFormatCode /\ ~IsBoolPtr(target) /\ IsBoolScanner(target) ->
             "scanPlanTextAnyToBoolScanner"
      [] OTHER -> NoPlan

scanPlanBinaryFloat8ToFloat64Scan(src, dst) ==
    IF src.isnil THEN ScanErr(dst, ErrNullNotAllowed)
    ELSE IF Len(src.b) # 8 THEN ScanErr(dst, ErrInvalidLength)
    ELSE IF ~IsFloat64Ptr(dst) THEN ScanPanic(dst)
    ELSE ScanOk([dst EXCEPT !.v = Float64V(Float64frombits(BigEndianUint64(src.b)))])

scanPlanBinaryFloat8ToFloat64ScannerScan(src, dst) ==
    IF ~IsFloat64Scanner(dst) THEN ScanPanic(dst)
    ELSE IF src.isnil THEN ScanFloat64(dst, ZeroFloat8)
    ELSE IF Len(src.b) # 8 THEN ScanErr(dst, ErrInvalidLength)
    ELSE ScanFloat64(dst, MkFloat8(Float64frombits(BigEndianUint64(src.b)), TRUE))

scanPlanBinaryFloat8ToInt64ScannerScan(src, dst) ==
    IF ~IsInt64Scanner(dst) THEN ScanPanic(dst)
    ELSE IF src.isnil THEN ScanInt64(dst, ZeroInt8)
    ELSE IF Len(src.b) # 8 THEN ScanErr(dst, ErrInvalidLength)
    ELSE LET f64 == Float64frombits(BigEndianUint64(src.b))
         IN  IF ~FloatIsIntegral(f64) THEN ScanErr(dst, ErrLossy)
             ELSE ScanInt64(dst, MkInt8(FloatToInt(f64), TRUE))

scanPlanTextAnyToFloat64Scan(src, dst) ==
    IF src.isnil THEN ScanErr(dst, ErrNullNotAllowed)
    ELSE LET p == ParseFloat(src.b)
         IN  IF ~p.ok THEN ScanErr(dst, ErrParse)
             ELSE IF ~IsFloat64Ptr(dst) THEN ScanPanic(dst)
             ELSE ScanOk([dst EXCEPT !.v = Float64V(p.f)])

scanPlanTextAnyToFloat64ScannerScan(src, dst) ==
    IF ~IsFloat64Scanner(dst) THEN ScanPanic(dst)
    ELSE IF src.isnil THEN ScanFloat64(dst, ZeroFloat8)
    ELSE LET p == ParseFloat(src.b)
         IN  IF ~p.ok THEN ScanErr(dst, ErrParse)
             ELSE ScanFloat64(dst, MkFloat8(p.f, TRUE))

\* scanPlanTextAnyToInt64Scanner: the text read as a double, which must be
\* an integer exactly
scanPlanTextAnyToInt64ScannerScan(src, dst) ==
    IF ~IsInt64Scanner(dst) THEN ScanErr(dst, ErrScanTargetTypeChanged)
    ELSE IF src.isnil THEN ScanInt64(dst, ZeroInt8)
    ELSE LET p == ParseFloat(src.b)
         IN  IF ~p.ok THEN ScanErr(dst, ErrParse)
             ELSE IF ~FloatIsIntegral(p.f) THEN ScanErr(dst, ErrLossy)
             ELSE ScanInt64(dst, MkInt8(FloatToInt(p.f), TRUE))

\* Float8Codec.PlanScan
Float8CodecPlanScan(format, target) ==
    CASE format = BinaryFormatCode ->
             (CASE IsFloat64Ptr(target) -> "scanPlanBinaryFloat8ToFloat64"
                [] ~IsFloat64Ptr(target) /\ IsFloat64Scanner(target) ->
                       "scanPlanBinaryFloat8ToFloat64Scanner"
                [] ~IsFloat64Ptr(target) /\ ~IsFloat64Scanner(target)
                   /\ IsInt64Scanner(target) ->
                       "scanPlanBinaryFloat8ToInt64Scanner"
                [] OTHER -> NoPlan)
      [] format = TextFormatCode ->
             (CASE IsFloat64Ptr(target) -> "scanPlanTextAnyToFloat64"
                [] ~IsFloat64Ptr(target) /\ IsFloat64Scanner(target) ->
                       "scanPlanTextAnyToFloat64Scanner"
                [] ~IsFloat64Ptr(target) /\ ~IsFloat64Scanner(target)
                   /\ IsInt64Scanner(target) ->
                       "scanPlanTextAnyToInt64Scanner"
                [] OTHER -> NoPlan)
      [] OTHER -> NoPlan

\* ScanPlan.Scan, dispatched on the plan's type
PlanScanRun(plan, src, dst) ==
    CASE plan = "scanPlanBinaryTimestamptzToTimestamptzScanner" ->
             scanPlanBinaryTimestamptzToTimestamptzScannerScan(src, dst)
      [] plan = "scanPlanTextTimestamptzToTimestamptzScanner" ->
             scanPlanTextTimestamptzToTimestamptzScannerScan(src, dst)
      [] plan = "scanPlanBinaryBoolToBool" -> scanPlanBinaryBoolToBoolScan(src, dst)
      [] plan = "scanPlanTextAnyToBool" -> scanPlanTextAnyToBoolScan(src, dst)
      [] plan = "scanPlanBinaryBoolToBoolScanner" ->
             scanPlanBinaryBoolToBoolScannerScan(src, dst)
      [] plan = "scanPlanTextAnyToBoolScanner" ->
             scanPlanTextAnyToBoolScannerScan(src, dst)
      [] plan = "scanPlanBinaryFloat8ToFloat64" ->
             scanPlanBinaryFloat8ToFloat64Scan(src, dst)
      [] plan = "scanPlanBinaryFloat8ToFloat64Scanner" ->
             scanPlanBinaryFloat8ToFloat64ScannerScan(src, dst)
      [] plan = "scanPlanBinaryFloat8ToInt64Scanner" ->
             scanPlanBinaryFloat8ToInt64ScannerScan(src, dst)
      [] plan = "scanPlanTextAnyToFloat64" -> scanPlanTextAnyToFloat64Scan(src, dst)
      [] plan = "scanPlanTextAnyToFloat64Scanner" ->
             scanPlanTextAnyToFloat64ScannerScan(src, dst)
      [] plan = "scanPlanTextAnyToInt64Scanner" ->
             scanPlanTextAnyToInt64ScannerScan(src, dst)

\* the type assertion a scan plan makes on its target succeeds
ScanPlanAccepts(plan, dst) ==
    CASE plan \in {"scanPlanBinaryTimestamptzToTimestamptzScanner",
                   "scanPlanTextTimestamptzToTimestamptzScanner"} ->
             IsTimestamptzScanner(dst)
      [] plan \in {"scanPlanBinaryBoolToBool", "scanPlanTextAnyToBool"} ->
             IsBoolPtr(dst)
      [] plan \in {"scanPlanBinaryBoolToBoolScanner",
                   "scanPlanTextAnyToBoolScanner"} -> IsBoolScanner(dst)
      [] plan \in {"scanPlanBinaryFloat8ToFloat64", "scanPlanTextAnyToFloat64"} ->
             IsFloat64Ptr(dst)
      [] plan \in {"scanPlanBinaryFloat8ToFloat64Scanner",
                   "scanPlanTextAnyToFloat64Scanner"} -> IsFloat64Scanner(dst)
      [] plan \in {"scanPlanBinaryFloat8ToInt64Scanner",
                   "scanPlanTextAnyToInt64Scanner"} -> IsInt64Scanner(dst)

---------------------------------------------------------------------------
(* pgtype.Map: the registry of codecs by OID, and its Encode.              *)

BoolOID == "bool"
Float8OID == "float8"
TimestamptzOID == "timestamptz"
UnknownOID == "unknown"

\* the registry after initialization
DefaultMap ==
    [bool |-> "BoolCodec", float8 |-> "Float8Codec",
     timestamptz |-> "TimestamptzCodec"]

\* m.TypeForOID(oid): (_, ok)
TypeForOID(m, oid) == oid \in DOMAIN m

\* Codec.PreferredFormat (lines 235, 533, 828)
PreferredFormat(c) == BinaryFormatCode

\* Codec.PlanEncode, dispatched on the codec
CodecPlanEncode(c, format, value) ==
    CASE c = "BoolCodec" -> BoolCodecPlanEncode(format, value)
      [] c = "Float8Codec" -> Float8CodecPlanEncode(format, value)
      [] c = "TimestamptzCodec" -> TimestamptzCodecPlanEncode(format, value)

\* m.PlanEncode: the codec's plan for the value as given; failing that, for
\* the value with one layer of type naming stripped.
MapPlanEncode(m, oid, format, value) ==
    IF ~TypeForOID(m, oid) THEN [plan |-> NoPlan, value |-> value]
    ELSE CHOOSE p \in
           { IF direct # NoPlan THEN [plan |-> direct, value |-> value]
             ELSE IF value.k = "named"
             THEN [plan |-> CodecPlanEncode(m[oid], format, value.base),
                   value |-> value.base]
             ELSE [plan |-> NoPlan, value |-> value] :
             direct \in {CodecPlanEncode(m[oid], format, value)} } : TRUE

\* m.Encode(oid, formatCode, value, buf)
MapEncode(m, oid, formatCode, value, buf) ==
    IF value = NilValue THEN EncOk(NilB)
    ELSE CHOOSE e \in
           { IF p.plan = NoPlan THEN EncErr(ErrNoPlan)
             ELSE CHOOSE x \in
                    { IF r.panic \/ r.err = NoErr THEN r ELSE EncErr(r.err) :
                      r \in {PlanEncodeRun(p.plan, p.value, buf)} } : TRUE :
             p \in {MapPlanEncode(m, oid, formatCode, value)} } : TRUE

\* chooseParameterFormatCode(m, oid, arg)
chooseParameterFormatCode(m, oid, arg) ==
    IF /\ arg # NilValue
       /\ TypeForOID(m, oid)
       /\ PreferredFormat(m[oid]) = BinaryFormatCode
       /\ MapPlanEncode(m, oid, BinaryFormatCode, arg).plan # NoPlan
    THEN BinaryFormatCode
    ELSE TextFormatCode

\* stripNamedType(&refVal): the value converted to its basic kind, and
\* whether its type was a named one
stripNamedTypeNever(v) == [v |-> NilValue, ok |-> FALSE]
stripNamedType(v) ==
    IF v.k = "named" /\ v.base.k \in {"int", "string"}
    THEN [v |-> v.base, ok |-> TRUE]
    ELSE [v |-> NilValue, ok |-> FALSE]

---------------------------------------------------------------------------
(* Go slices.  A []byte is a window on a backing array of the heap; a      *)
(* slice whose elements nothing aliases is its elements and its capacity.  *)

NilSlice == [isnil |-> TRUE, arr |-> 0, off |-> 0, len |-> 0, cap |-> 0]

\* the bytes s[0:len(s)]
Bytes(h, s) ==
    IF s.isnil \/ s.len = 0 THEN <<>> ELSE SubSeq(h[s.arr], s.off + 1, s.off + s.len)

\* make([]byte, len(bs), n) holding bs
MakeBytes(h, bs, n) ==
    [heap |-> Append(h, [i \in 1..n |-> IF i <= Len(bs) THEN bs[i] ELSE 0]),
     s    |-> [isnil |-> FALSE, arr |-> Len(h) + 1, off |-> 0,
               len |-> Len(bs), cap |-> n]]

\* s[pos:]
SliceWhole(s, pos) == s
SliceFrom(s, pos) ==
    [s EXCEPT !.off = @ + pos, !.len = @ - pos, !.cap = @ - pos]

\* s[0:0]
SliceEmpty(s) == [s EXCEPT !.len = 0]

\* runtime.growslice: the capacity append grows to (size classes aside)
RECURSIVE GrowBy(_, _)
GrowBy(c, need) == IF c >= need THEN c ELSE GrowBy(c + (c + 768) \div 4, need)

GrowCap(old, need) ==
    IF need > 2 * old THEN need
    ELSE IF old < 256 THEN 2 * old
    ELSE GrowBy(old, need)

\* append(s, bs...) on a []byte: in place when the capacity allows, else
\* into a new backing array; the old array stays as it was.
GoAppendBytes(h, s, bs) ==
    IF bs = <<>> THEN [heap |-> h, s |-> s]
    ELSE IF ~s.isnil /\ s.len + Len(bs) <= s.cap
    THEN [heap |-> [h EXCEPT ![s.arr] =
                       [i \in DOMAIN @ |->
                           IF i > s.off + s.len /\ i <= s.off + s.len + Len(bs)
                           THEN bs[i - s.off - s.len] ELSE @[i]]],
          s    |-> [s EXCEPT !.len = @ + Len(bs)]]
    ELSE MakeBytes(h, Bytes(h, s) \o bs, GrowCap(s.cap, s.len + Len(bs)))

\* append(s, x) on a slice kept as [elems, cap]
GoAppend(s, x) ==
    [elems |-> Append(s.elems, x),
     cap   |-> IF Len(s.elems) + 1 <= s.cap THEN s.cap
               ELSE GrowCap(s.cap, Len(s.elems) + 1)]

NilElems == [elems |-> <<>>, cap |-> 0]

---------------------------------------------------------------------------
(* extendedQueryBuilder                                                    *)

Ret(h, pvb, v, err, via) ==
    [heap |-> h, pvb |-> pvb, v |-> v, err |-> err, via |-> via,
     derefs |-> 0, encoded |-> FALSE]

\* arg = refVal.Elem().Interface(), then the call on the pointee: one more
\* dereference than the inner call made
DerefOnceOnly(r) == [r EXCEPT !.derefs = 1]
Deref(r) == [r EXCEPT !.derefs = @ + 1]

\* the outcome of a call that went through m.Encode
ViaEncode(r) == [r EXCEPT !.encoded = TRUE]

\* pos := len(eqb.paramValueBytes)
PosZero(pvb) == 0
Pos(pvb) == pvb.len

\* encodeExtendedParamValue(m, oid, formatCode, arg), on the heap h and the
\* builder's paramValueBytes pvb: the new heap and paramValueBytes, the
\* returned payload v and error, the branch that returned ("null",
\* "string", "codec" or "error"), the number of pointer dereferences made
\* and whether m.Encode was called.
RECURSIVE encodeExtendedParamValue(_, _, _, _, _, _)
encodeExtendedParamValue(h, pvb, m, oid, formatCode, arg) ==
    IF arg = NilValue THEN Ret(h, pvb, NilSlice, NoErr, "null")
    ELSE IF arg.k = "nilptr" THEN Ret(h, pvb, NilSlice, NoErr, "null")
    ELSE
      CHOOSE ret \in
        { IF arg.k = "string"
          THEN CHOOSE x \in
                 { Ret(c.heap, a.s, c.s, NoErr, "string") :
                   c \in {MakeBytes(a.heap, arg.s, Len(arg.s))} } : TRUE
          ELSE IF arg.k = "ptr"
          THEN Deref(encodeExtendedParamValue(a.heap, a.s, m, oid, formatCode,
                                              arg.elem))
          ELSE IF TypeForOID(m, oid)
          THEN CHOOSE x \in
                 { ViaEncode(
                   IF r.err # NoErr THEN Ret(a.heap, a.s, NilSlice, r.err, "error")
                   ELSE IF r.buf.isnil
                   THEN Ret(a.heap, a.s, NilSlice, NoErr, "null")
                   ELSE CHOOSE y \in
                          { Ret(g.heap, g.s, SliceFrom(g.s, Pos(a.s)), NoErr, "codec") :
                            g \in {GoAppendBytes(a.heap, a.s,
                                      SubSeq(r.buf.b, a.s.len + 1, Len(r.buf.b)))} } :
                          TRUE) :
                   r \in {MapEncode(m, oid, formatCode, arg,
                                    B(Bytes(a.heap, a.s)))} } : TRUE
          ELSE CHOOSE x \in
                 { IF st.ok
                   THEN encodeExtendedParamValue(a.heap, a.s, m, oid, formatCode, st.v)
                   ELSE Ret(a.heap, a.s, NilSlice, ErrSerialization, "error") :
                   st \in {stripNamedType(arg)} } : TRUE :
          a \in { IF pvb.isnil
                  THEN MakeBytes(h, <<>>, ParamValueBytesInitialCap)
                  ELSE [heap |-> h, s |-> pvb] } } : TRUE

\* eqb.paramValues = append(eqb.paramValues, v)
StorePayloadFirst(pv, v) == [elems |-> <<v>> \o pv.elems, cap |-> GoAppend(pv, v).cap]
StorePayload(pv, v) == GoAppend(pv, v)

\* the record of a call: its arguments, the error it returned, for Reset
\* the capacities it found, and for AppendParam the branch that returned,
\* the dereferences made and whether m.Encode was called
Call(op, oid, arg, f, err, caps) ==
    [op |-> op, oid |-> oid, arg |-> arg, f |-> f, err |-> err, caps |-> caps,
     via |-> "", derefs |-> 0, encoded |-> FALSE]

\* AppendParam(m, oid, arg)
AppendParam(m, oid, arg) ==
    \E f \in {chooseParameterFormatCode(m, oid, arg)} :
    \E r \in {encodeExtendedParamValue(heap, paramValueBytes, m, oid, f, arg)} :
        /\ paramFormats' = GoAppend(paramFormats, f)
        /\ heap' = r.heap
        /\ paramValueBytes' = r.pvb
        /\ IF r.err # NoErr
           THEN /\ paramValues' = paramValues
                /\ calls' = calls
                /\ failed' = TRUE
           ELSE /\ paramValues' = StorePayload(paramValues, r.v)
                /\ calls' = Append(calls, [f |-> f, isnil |-> r.v.isnil,
                                           bytes |-> Bytes(r.heap, r.v),
                                           via |-> r.via])
                /\ failed' = failed
        /\ last' = [Call("AppendParam", oid, arg, f, r.err, <<>>)
                       EXCEPT !.via = r.via, !.derefs = r.derefs,
                              !.encoded = r.encoded]
        /\ UNCHANGED <<resultFormats, resets, codec>>

\* AppendResultFormat(f)
AppendResultFormat(f) ==
    /\ resultFormats' = GoAppend(resultFormats, f)
    /\ last' = Call("AppendResultFormat", "", NilValue, f, NoErr, <<>>)
    /\ UNCHANGED <<paramValues, paramValueBytes, paramFormats, heap,
                   calls, failed, resets, codec>>

\* one slice of Reset: s = s[0:0]; if cap(s) > limit { s = make(T, 0, limit) }
KeepCap(c, limit) == c
ShrinkCap(c, limit) == IF c > limit THEN limit ELSE c

\* Reset().  The payloads handed out are dropped with paramValues, so the
\* only backing array still referenced is paramValueBytes'; the bytes past
\* its length are never read again and are kept as zeros.
Reset ==
    /\ paramValues' = [elems |-> <<>>,
                       cap |-> ShrinkCap(paramValues.cap, ParamValuesCapLimit)]
    /\ paramFormats' = [elems |-> <<>>,
                        cap |-> ShrinkCap(paramFormats.cap, ParamFormatsCapLimit)]
    /\ resultFormats' = [elems |-> <<>>,
                         cap |-> ShrinkCap(resultFormats.cap, ResultFormatsCapLimit)]
    /\ IF paramValueBytes.isnil
       THEN /\ paramValueBytes' = paramValueBytes
            /\ heap' = <<>>
       ELSE LET n == MakeBytes(<<>>, <<>>,
                         ShrinkCap(paramValueBytes.cap, ParamValueBytesCapLimit))
            IN  /\ paramValueBytes' = n.s
                /\ heap' = n.heap
    /\ calls' = <<>>
    /\ failed' = FALSE
    /\ resets' = resets + 1
    /\ last' = Call("Reset", "", NilValue, 0, NoErr,
                  <<paramValues.cap, paramValueBytes.cap, paramFormats.cap,
                    resultFormats.cap>>)
    /\ UNCHANGED codec

---------------------------------------------------------------------------
(* The builder's behaviours.                                               *)

\* 2000-01-01 00:00:01.5 UTC
SampleTime == MkTime(I64FromInt(946684801), 500000000)

\* "hi", "x"
StrHi == <<104, 105>>
StrX == <<120>>

\* (oid, arg) pairs of the mixed behaviours: native values, wrappers,
\* pointers, nil, strings, named types, and arguments that fail to encode.
MixedArgs ==
    { <<BoolOID, BoolV(TRUE)>>,
      <<Float8OID, PtrTo(Float64V(FloatFromRatio(0, 3, 1)))>>,
      <<TimestamptzOID, MkTimestamptz(SampleTime, None, TRUE)>>,
      <<UnknownOID, StringV(StrHi)>>,
      <<UnknownOID, Named(StringV(StrX))>>,
      <<UnknownOID, IntV(7)>>,
      <<BoolOID, FailingValuer("Bool")>>,
      <<BoolOID, NilValue>>,
      <<BoolOID, MkBool(TRUE, FALSE)>>,
      <<Float8OID, NilPtrTo("Float8")>>,
      <<BoolOID, PtrTo(PtrTo(BoolV(FALSE)))>>,
      <<BoolOID, PtrTo(NilPtrTo("bool"))>>,
      <<BoolOID, StringV(StrHi)>>,
      <<BoolOID, Named(StringV(StrX))>>,
      <<Float8OID, PtrTo(StringV(StrHi))>> }

\* (oid, arg) pairs of the long runs: 8 codec-encoded bytes, a string, a
\* failure
BulkArgs ==
    { <<Float8OID, Float64V(FloatFromInt(3))>>,
      <<UnknownOID, StringV(StrX)>>,
      <<UnknownOID, IntV(7)>> }

FormatCodes == {TextFormatCode, BinaryFormatCode}

\* a new extendedQueryBuilder: every field nil
Init ==
    /\ paramValues = NilElems
    /\ paramValueBytes = NilSlice
    /\ paramFormats = NilElems
    /\ resultFormats = NilElems
    /\ heap = <<>>
    /\ last = Call("init", "", NilValue, 0, NoErr, <<>>)
    /\ calls = <<>>
    /\ failed = FALSE
    /\ resets = 0
    /\ codec = [op |-> "idle"]

MixedAppendParam ==
    /\ Len(paramFormats.elems) < MaxParams
    /\ \E oa \in MixedArgs : AppendParam(DefaultMap, oa[1], oa[2])

MixedAppendResultFormat ==
    /\ Len(resultFormats.elems) < MaxResults
    /\ \E f \in FormatCodes : AppendResultFormat(f)

MixedReset ==
    /\ resets < MaxResets
    /\ Reset

Next == MixedAppendParam \/ MixedAppendResultFormat \/ MixedReset

Spec == Init /\ [][Next]_vars

\* Long runs: from a new or just-Reset builder, one call repeated.
BulkAppendParam ==
    /\ Len(paramFormats.elems) < MaxBulk
    /\ \E oa \in BulkArgs :
          /\ \/ last.op \in {"init", "Reset"}
             \/ last.op = "AppendParam" /\ last.oid = oa[1] /\ last.arg = oa[2]
          /\ AppendParam(DefaultMap, oa[1], oa[2])

BulkAppendResultFormat ==
    /\ Len(resultFormats.elems) < MaxBulk
    /\ last.op \in {"init", "Reset", "AppendResultFormat"}
    /\ AppendResultFormat(BinaryFormatCode)

BulkReset ==
    /\ resets < MaxBulkResets
    /\ Reset

NextBulk == BulkAppendParam \/ BulkAppendResultFormat \/ BulkReset

SpecBulk == Init /\ [][NextBulk]_vars

---------------------------------------------------------------------------
(* Properties of the builder.                                              *)

\* the payloads as the caller reads them: NULL or the bytes of the window
Payloads(h, pv) ==
    [k \in 1..Len(pv.elems) |->
        [isnil |-> pv.elems[k].isnil, bytes |-> Bytes(h, pv.elems[k])]]

\* C1: an AppendParam that returns an error leaves paramFormats,
\* paramValues, paramValueBytes and resultFormats with the lengths and
\* contents they had before the call.
C1_FailedAppendParamLeavesBuilderAsBefore ==
    [][ (last'.op = "AppendParam" /\ last'.err # NoErr) =>
          /\ paramFormats'.elems = paramFormats.elems
          /\ Payloads(heap', paramValues') = Payloads(heap, paramValues)
          /\ Bytes(heap', paramValueBytes') = Bytes(heap, paramValueBytes)
          /\ resultFormats'.elems = resultFormats.elems ]_vars

\* C2: after n AppendParam calls that all returned nil on a new or
\* just-Reset builder, paramFormats and paramValues have length n, entry k
\* holds the format code and the payload of the k-th call, and the payload
\* still reads as it did when its call returned, whatever AppendParam and
\* AppendResultFormat calls came later.
C2_ParamsInCallOrderAndStable ==
    ~failed =>
       /\ Len(paramFormats.elems) = Len(calls)
       /\ Len(paramValues.elems) = Len(calls)
       /\ \A k \in 1..Len(calls) :
             /\ paramFormats.elems[k] = calls[k].f
             /\ paramValues.elems[k].isnil = calls[k].isnil
             /\ Bytes(heap, paramValues.elems[k]) = calls[k].bytes

\* two codec-encoded payloads of different bytes, then a result format
C2_Witness ==
    /\ ~failed
    /\ Len(calls) = 2
    /\ calls[1].via = "codec" /\ calls[2].via = "codec"
    /\ calls[1].bytes # calls[2].bytes
    /\ calls[1].f # calls[2].f
    /\ last.op = "AppendResultFormat"

\* C3: after Reset the four slices are empty and their capacities are at
\* most 64 (paramValues), 256 (paramValueBytes), 64 (paramFormats) and 64
\* (resultFormats), whatever calls came before.
C3_ResetEmptiesAndCapsCapacity ==
    last.op = "Reset" =>
       /\ Len(paramValues.elems) = 0
       /\ paramValueBytes.len = 0
       /\ Len(paramFormats.elems) = 0
       /\ Len(resultFormats.elems) = 0
       /\ paramValues.cap <= 64
       /\ paramValueBytes.cap <= 256
       /\ paramFormats.cap <= 64
       /\ resultFormats.cap <= 64

\* a Reset that found paramValues, paramValueBytes and paramFormats past
\* their thresholds
C3_Witness ==
    /\ last.op = "Reset"
    /\ last.caps[1] > 64
    /\ last.caps[2] > 256
    /\ last.caps[3] > 64

\* C4 as stated: every non-NULL payload a successful AppendParam stores is
\* the window of paramValueBytes that the call appended, for every kind of
\* argument.
C4_EveryPayloadIsTailOfSharedBuffer ==
    [][ (/\ last'.op = "AppendParam" /\ last'.err = NoErr
         /\ ~paramValues'.elems[Len(paramValues'.elems)].isnil) =>
          LET v == paramValues'.elems[Len(paramValues'.elems)]
          IN  /\ v.arr = paramValueBytes'.arr
              /\ v.off = paramValueBytes.len
              /\ v.off + v.len = paramValueBytes'.len
              /\ Bytes(heap', v) = calls'[Len(calls')].bytes ]_vars

\* C4 as amended: the payload of a codec-encoded argument is the window of
\* paramValueBytes that the call appended; the payload of a string argument
\* (given directly, behind a pointer, or after stripping a named type) is a
\* copy of the string in an array of its own, and the shared buffer stays
\* as it was.
C4_CodecPayloadIsTailStringPayloadIsCopy ==
    [][ (/\ last'.op = "AppendParam" /\ last'.err = NoErr
         /\ ~paramValues'.elems[Len(paramValues'.elems)].isnil) =>
          LET v   == paramValues'.elems[Len(paramValues'.elems)]
              via == calls'[Len(calls')].via
          IN  /\ via \in {"codec", "string"}
              /\ via = "codec" =>
                    /\ v.arr = paramValueBytes'.arr
                    /\ v.off = paramValueBytes.len
                    /\ v.len > 0
                    /\ v.off + v.len = paramValueBytes'.len
                    /\ Bytes(heap', paramValueBytes')
                          = Bytes(heap, paramValueBytes) \o Bytes(heap', v)
              /\ via = "string" =>
                    /\ v.arr # paramValueBytes'.arr
                    /\ Bytes(heap', paramValueBytes') = Bytes(heap, paramValueBytes)
                    /\ \A k \in 1..Len(paramValues.elems) :
                          paramValues.elems[k].isnil
                             \/ paramValues.elems[k].arr # v.arr ]_vars

\* a second codec-encoded payload, cut from the shared buffer past the first
C4_Witness ==
    /\ last.op = "AppendParam" /\ last.err = NoErr
    /\ Len(calls) = 2
    /\ calls[1].via = "codec" /\ calls[2].via = "codec"
    /\ paramValues.elems[2].off > 0

\* the payload and error a call returns, as the caller sees them
Outcome(r) ==
    [err |-> r.err, isnil |-> r.v.isnil, bytes |-> Bytes(r.heap, r.v)]

\* the payload and error of the AppendParam step just taken
StepOutcome ==
    [err   |-> last'.err,
     isnil |-> IF last'.err # NoErr THEN TRUE
               ELSE paramValues'.elems[Len(paramValues'.elems)].isnil,
     bytes |-> IF last'.err # NoErr THEN <<>>
               ELSE Bytes(heap', paramValues'.elems[Len(paramValues'.elems)])]

\* the payload and error that the pointee of the step's argument gives
\* under the step's oid and format code
PointeeOutcome ==
    Outcome(encodeExtendedParamValue(heap, paramValueBytes, DefaultMap,
                                     last'.oid, last'.f, last'.arg.elem))

\* a nil argument or a nil pointer is NULL at the next index, and the
\* shared buffer is not touched, not even allocated
NilArgumentIsNull ==
    (last'.op = "AppendParam" /\ last'.arg.k \in {"nil", "nilptr"}) =>
       /\ last'.err = NoErr
       /\ Len(paramValues'.elems) = Len(paramValues.elems) + 1
       /\ paramValues'.elems[Len(paramValues'.elems)].isnil
       /\ SubSeq(paramValues'.elems, 1, Len(paramValues.elems))
             = paramValues.elems
       /\ paramValueBytes' = paramValueBytes
       /\ heap' = heap

\* a non-nil pointer gives what its pointee gives; a pointer to a nil
\* pointer is NULL
PointerIsItsPointee ==
    (last'.op = "AppendParam" /\ last'.arg.k = "ptr") =>
       /\ StepOutcome = PointeeOutcome
       /\ last'.arg.elem.k = "nilptr" =>
             last'.err = NoErr /\ StepOutcome.isnil

\* the pointer layers of a value
RECURSIVE PtrDepth(_)
PtrDepth(v) == IF v.k = "ptr" THEN 1 + PtrDepth(v.elem) ELSE 0

RECURSIVE IsStringArg(_)
IsStringArg(v) ==
    \/ v.k = "string"
    \/ v.k = "ptr" /\ IsStringArg(v.elem)

\* a value of a named string type, given directly or behind pointers
RECURSIVE IsNamedStringArg(_)
IsNamedStringArg(v) ==
    \/ v.k = "named" /\ v.base.k = "string"
    \/ v.k = "ptr" /\ IsNamedStringArg(v.elem)

\* the bytes of the string of such an argument
RECURSIVE StringOf(_)
StringOf(v) ==
    IF v.k = "string" THEN v.s
    ELSE IF v.k = "named" THEN v.base.s
    ELSE StringOf(v.elem)

\* the step stored the argument's string verbatim, left the length and
\* contents of paramValueBytes alone and did not call m.Encode
StringStoredVerbatim ==
    /\ last'.err = NoErr
    /\ Len(paramValues'.elems) = Len(paramValues.elems) + 1
    /\ ~StepOutcome.isnil
    /\ StepOutcome.bytes = StringOf(last'.arg)
    /\ paramValueBytes'.len = paramValueBytes.len
    /\ Bytes(heap', paramValueBytes') = Bytes(heap, paramValueBytes)
    /\ ~last'.encoded

\* C12 as stated: for a string argument, given directly, behind a pointer
\* or as a value of a named string type, AppendParam never fails, stores
\* the string's bytes verbatim whatever the OID and whether or not a codec
\* is registered for it, leaves the length and contents of
\* paramValueBytes alone and does not call the registry's Encode.
C12_StringStoredVerbatimWhateverTheOID ==
    [][ (/\ last'.op = "AppendParam"
         /\ IsStringArg(last'.arg) \/ IsNamedStringArg(last'.arg)) =>
          StringStoredVerbatim ]_vars

\* C12 as amended: for a string given directly or behind a pointer, and
\* for a value of a named string type when no codec is registered for the
\* OID, AppendParam never fails, stores the string's bytes verbatim,
\* leaves the length and contents of paramValueBytes alone and does not
\* call the registry's Encode; for a value of a named string type under
\* an OID with a registered codec the registry's Encode is called and
\* decides the outcome.
C12_StringVerbatimNamedStringOnlyWithoutCodec ==
    [][ last'.op = "AppendParam" =>
          /\ IsStringArg(last'.arg) => StringStoredVerbatim
          /\ (IsNamedStringArg(last'.arg)
                /\ ~TypeForOID(DefaultMap, last'.oid)) => StringStoredVerbatim
          /\ (IsNamedStringArg(last'.arg)
                /\ TypeForOID(DefaultMap, last'.oid)) => last'.encoded ]_vars

\* after a codec-encoded payload, a value of a named string type under an
\* OID without a codec: its bytes are stored and the shared buffer still
\* holds the first payload only
C12_Witness ==
    /\ last.op = "AppendParam" /\ last.err = NoErr
    /\ last.arg = Named(StringV(StrX))
    /\ ~last.encoded
    /\ Len(calls) = 2
    /\ calls[1].via = "codec"
    /\ calls[2].via = "string" /\ calls[2].bytes = StrX
    /\ paramValueBytes.len > 0
    /\ paramValueBytes.len = Len(calls[1].bytes)

\* the codec-encoded payloads of the successful calls, concatenated in
\* call order
RECURSIVE CodecPayloads(_)
CodecPayloads(cs) ==
    IF cs = <<>> THEN <<>>
    ELSE CodecPayloads(SubSeq(cs, 1, Len(cs) - 1))
           \o (IF cs[Len(cs)].via = "codec" THEN cs[Len(cs)].bytes ELSE <<>>)

\* paramValueBytes holds the codec-encoded payloads since the last Reset
BufferIsCodecPayloads ==
    /\ Bytes(heap, paramValueBytes) = CodecPayloads(calls)
    /\ paramValueBytes.len = Len(CodecPayloads(calls))

\* the buffer grows in a successful codec-encoded AppendParam, by the
\* length of its payload, and in no other AppendParam or AppendResultFormat
BufferGrowsByCodecPayload ==
    /\ (last'.op = "AppendParam" /\ last'.err = NoErr /\ last'.via = "codec") =>
          /\ last'.encoded
          /\ paramValueBytes'.len = paramValueBytes.len + Len(StepOutcome.bytes)
          /\ Bytes(heap', paramValueBytes')
                = Bytes(heap, paramValueBytes) \o StepOutcome.bytes
    /\ (last'.op = "AppendParam" /\ (last'.err # NoErr \/ last'.via # "codec")) =>
          /\ paramValueBytes'.len = paramValueBytes.len
          /\ Bytes(heap', paramValueBytes') = Bytes(heap, paramValueBytes)
    /\ last'.op = "AppendResultFormat" =>
          /\ paramValueBytes' = paramValueBytes
          /\ heap' = heap

\* C13: in every reachable state paramValueBytes is the concatenation, in
\* call order, of the payloads the registry codec encoded for the
\* successful AppendParam calls since the last Reset; it grows only in a
\* successful codec-encoded AppendParam, by that payload's length, and
\* NULL payloads, string payloads, failed calls and AppendResultFormat
\* leave its length as it was.
C13_SharedBufferIsTheCodecPayloadsInOrder ==
    /\ []BufferIsCodecPayloads
    /\ [][BufferGrowsByCodecPayload]_vars

\* after a Reset, two different codec-encoded payloads fill the buffer
C13_Witness ==
    /\ resets = 1
    /\ Len(calls) = 2
    /\ calls[1].via = "codec" /\ calls[2].via = "codec"
    /\ calls[1].bytes # calls[2].bytes
    /\ paramValueBytes.len = Len(calls[1].bytes) + Len(calls[2].bytes)
    /\ Bytes(heap, paramValueBytes) = calls[1].bytes \o calls[2].bytes

---------------------------------------------------------------------------
(* The codecs' behaviours: one plan call at a time, on values, payloads    *)
(* and targets drawn from the sets below.                                  *)

MaxPayloadLen == 9

\* Codec.PlanScan, dispatched on the codec
CodecPlanScan(c, format, target) ==
    CASE c = "BoolCodec" -> BoolCodecPlanScan(format, target)
      [] c = "Float8Codec" -> Float8CodecPlanScan(format, target)
      [] c = "TimestamptzCodec" -> TimestamptzCodecPlanScan(format, target)

Codecs == {"BoolCodec", "Float8Codec", "TimestamptzCodec"}

\* the instants whose offsets from 2000-01-01 are the two sentinels:
\* 294247-01-10 04:00:54.775807 UTC and its mirror image before the epoch
PlusSentinelInstant == MkTime(I64FromMillions(0, 9224318, 721654), 775807000)
MinusSentinelInstant == MkTime(U64Neg(I64FromMillions(0, 9222425, 352055)), 224192000)

\* instants: the Unix and PostgreSQL epochs, fractions of a second after
\* 2000 and before 1970, a sub-microsecond fraction, year 1, the sentinel
\* instants and their finite neighbours, and one second past the offsets
\* an int64 holds
TestTimes ==
    { MkTime(I64FromInt(0), 0),
      MkTime(I64FromInt(946684800), 0),
      SampleTime,
      MkTime(I64FromInt(0 - 1), 999999000),
      MkTime(I64FromInt(946684800), 1500),
      ZeroTime,
      PlusSentinelInstant,
      MinusSentinelInstant,
      MkTime(PlusSentinelInstant.sec, PlusSentinelInstant.nsec - 1000),
      MkTime(MinusSentinelInstant.sec, MinusSentinelInstant.nsec + 1000),
      MkTime(U64Add(PlusSentinelInstant.sec, I64FromInt(1)), 0) }

TestFloats == {FloatZero, FloatFromInt(3), FloatFromRatio(0, 3, 1), FloatFromInt(0 - 2)}

BoolValues ==
    {BoolV(b) : b \in BOOLEAN}
    \cup {MkBool(b, v) : b \in BOOLEAN, v \in BOOLEAN}
    \cup {PtrTo(MkBool(TRUE, FALSE)), FailingValuer("Bool")}

Float8Values ==
    {Float64V(f) : f \in TestFloats}
    \cup {MkFloat8(f, v) : f \in TestFloats, v \in BOOLEAN}
    \cup {MkInt8(n, v) : n \in {0 - 2, 7}, v \in BOOLEAN}
    \cup {PtrTo(MkFloat8(FloatFromInt(3), FALSE))}

TimestamptzValues ==
    {MkTimestamptz(t, inf, v) :
        t \in TestTimes, inf \in {None, Infinity, NegativeInfinity}, v \in BOOLEAN}
    \cup {PtrTo(MkTimestamptz(SampleTime, Infinity, TRUE))}

EncodeValues == BoolValues \cup Float8Values \cup TimestamptzValues

\* the buffers Encode appends to: nil, empty, and one holding earlier bytes
EncodeBufs == {NilB, B(<<>>), B(<<9, 9>>)}

Fill(n, b) == [i \in 1..n |-> b]

\* payloads: NULL, every length up to MaxPayloadLen filled with 0, 1 or 't',
\* and texts and binary forms the codecs write
ScanPayloads ==
    {NilB}
    \cup {B(Fill(n, b)) : n \in 0..MaxPayloadLen, b \in {0, 1, Ch.t}}
    \cup {B(<<Ch.f>>), B(<<1, 0>>), B(StrInfinity), B(StrNegInfinity),
          B(<<64, 8, 0, 0, 0, 0, 0, 0>>), B(<<63, 248, 0, 0, 0, 0, 0, 0>>),
          B(<<Ch.zero + 1, Ch.dot, Ch.zero + 5>>), B(<<Ch.zero + 3>>),
          B(<<127, 255, 255, 255, 255, 255, 255, 255>>),
          B(<<128, 0, 0, 0, 0, 0, 0, 0>>),
          B(<<0, 0, 0, 0, 0, 22, 227, 96>>),
          B(FormatTimestamptz(SampleTime)),
          B(SubSeq(FormatTimestamptz(SampleTime), 1, 21)
            \o <<Ch.plus, Ch.zero, Ch.zero + 2, Ch.colon, Ch.zero + 3, Ch.zero>>)}

ScanTargets ==
    { Target("*bool", BoolV(TRUE)), Target("*bool", BoolV(FALSE)),
      Target("*float64", Float64V(FloatFromRatio(0, 3, 1))),
      Target("*Bool", MkBool(TRUE, TRUE)), Target("*Bool", ZeroBool),
      Target("*Float8", MkFloat8(FloatFromRatio(0, 3, 1), TRUE)),
      Target("*Int8", MkInt8(7, TRUE)),
      Target("*Timestamptz", MkTimestamptz(SampleTime, None, TRUE)),
      Target("*string", StringV(StrX)) }

\* a pointer to a zero variable of the type of v (of its wrapper, when v
\* is a pointer to one)
ZeroTargetFor(v) ==
    LET r == Receiver(v)
    IN  CASE r.k = "bool" -> Target("*bool", BoolV(FALSE))
          [] r.k = "float64" -> Target("*float64", Float64V(FloatZero))
          [] r.k = "Bool" -> Target("*Bool", ZeroBool)
          [] r.k = "Float8" -> Target("*Float8", ZeroFloat8)
          [] r.k = "Int8" -> Target("*Int8", ZeroInt8)
          [] r.k = "Timestamptz" -> Target("*Timestamptz", ZeroTimestamptz)

\* plan := c.PlanEncode(format, value); plan.Encode(value, buf)
CodecEncode ==
    /\ codec.op = "idle"
    /\ \E c \in Codecs, f \in FormatCodes, v \in EncodeValues, buf \in EncodeBufs :
          LET plan == CodecPlanEncode(c, f, v)
          IN  /\ plan # NoPlan
              /\ codec' = [op |-> "Encode", codec |-> c, format |-> f,
                           plan |-> plan, value |-> v, buf |-> buf,
                           res |-> PlanEncodeRun(plan, v, buf)]
    /\ UNCHANGED builderVars

\* plan := c.PlanScan(format, dst); plan.Scan(src, dst)
CodecScan ==
    /\ codec.op = "idle"
    /\ \E c \in Codecs, f \in FormatCodes, dst \in ScanTargets, src \in ScanPayloads :
          LET plan == CodecPlanScan(c, f, dst)
          IN  /\ plan # NoPlan
              /\ codec' = [op |-> "Scan", codec |-> c, format |-> f,
                           plan |-> plan, src |-> src, dst |-> dst,
                           res |-> PlanScanRun(plan, src, dst)]
    /\ UNCHANGED builderVars

\* plan := c.PlanScan(format, selected); plan.Scan(src, dst) with a dst on
\* which the plan's type assertion fails
CodecScanChanged ==
    /\ codec.op = "idle"
    /\ \E c \in Codecs, f \in FormatCodes, selected \in ScanTargets,
          dst \in ScanTargets, src \in ScanPayloads :
          LET plan == CodecPlanScan(c, f, selected)
          IN  /\ plan # NoPlan
              /\ ~ScanPlanAccepts(plan, dst)
              /\ codec' = [op |-> "ScanChanged", codec |-> c, format |-> f,
                           plan |-> plan, src |-> src, dst |-> dst,
                           res |-> PlanScanRun(plan, src, dst)]
    /\ UNCHANGED builderVars

\* Encode into an empty buffer, then Scan the payload into a zero variable
\* of the value's type
CodecRoundTrip ==
    /\ codec.op = "idle"
    /\ \E c \in Codecs, f \in FormatCodes, v \in EncodeValues :
          LET eplan == CodecPlanEncode(c, f, v)
              enc   == PlanEncodeRun(eplan, v, NilB)
              dst   == ZeroTargetFor(v)
              splan == CodecPlanScan(c, f, dst)
          IN  /\ eplan # NoPlan
              /\ Receiver(v).k \notin {"failing", "nilptr"}
              /\ splan # NoPlan
              /\ enc.err = NoErr /\ ~enc.panic
              /\ codec' = [op |-> "RoundTrip", codec |-> c, format |-> f,
                           value |-> v, enc |-> enc, dst |-> dst,
                           res |-> PlanScanRun(splan, enc.buf, dst)]
    /\ UNCHANGED builderVars

\* the call has returned
CodecReturn ==
    /\ codec.op # "idle"
    /\ codec' = [op |-> "idle"]
    /\ UNCHANGED builderVars

NextCodec ==
    CodecEncode \/ CodecScan \/ CodecScanChanged \/ CodecRoundTrip \/ CodecReturn

CodecSpec == Init /\ [][NextCodec]_vars

---------------------------------------------------------------------------
(* Properties of the codecs.                                               *)

\* the value's wrapper: the value itself, or what a pointer points to
IsWrapper(v) == Receiver(v).k \in {"Bool", "Float8", "Int8", "Timestamptz"}

ScannerTargets == {"*Bool", "*Float8", "*Int8", "*Timestamptz"}

\* C5: every encode plan of the three codecs, in both formats, returns a
\* nil payload and no error for a wrapper with Valid = false, whatever its
\* payload and infinity modifier; and every scan plan that targets a
\* scanner, given a nil payload, leaves the target a wrapper with
\* Valid = false.
C5_InvalidWrapperEncodesNilAndNilScansInvalid ==
    /\ (codec.op = "Encode" /\ IsWrapper(codec.value)
        /\ ~Receiver(codec.value).Valid)
         => /\ ~codec.res.panic
            /\ codec.res.err = NoErr
            /\ codec.res.buf.isnil
    /\ (codec.op = "Scan" /\ codec.src.isnil /\ codec.dst.k \in ScannerTargets)
         => /\ ~codec.res.panic
            /\ codec.res.err = NoErr
            /\ ~codec.res.dst.v.Valid

\* signed comparison of two int64
RECURSIVE U64LessFrom(_, _, _)
U64LessFrom(a, b, i) ==
    IF i = 0 THEN FALSE
    ELSE IF a[i] # b[i] THEN a[i] < b[i]
    ELSE U64LessFrom(a, b, i - 1)

I64Less(a, b) ==
    U64LessFrom([a EXCEPT ![8] = (@ + 128) % 256],
                [b EXCEPT ![8] = (@ + 128) % 256], 8)

\* the instant's offset from 2000-01-01 in microseconds fits an int64: it
\* lies between the two sentinel instants, these included
OffsetRepresentable(t) ==
    /\ ~I64Less(t.sec, MinusSentinelInstant.sec)
    /\ ~I64Less(PlusSentinelInstant.sec, t.sec)
    /\ t.sec = MinusSentinelInstant.sec => t.nsec >= MinusSentinelInstant.nsec
    /\ t.sec = PlusSentinelInstant.sec
         => t.nsec \div 1000 <= PlusSentinelInstant.nsec \div 1000

\* a Valid Timestamptz went through the binary encode plan and the binary
\* scan plan
BinaryTimestamptzRoundTrip ==
    /\ codec.op = "RoundTrip"
    /\ codec.codec = "TimestamptzCodec"
    /\ codec.format = BinaryFormatCode
    /\ Receiver(codec.value).Valid

\* the scanned wrapper is Valid, with the same infinity modifier and, when
\* finite, the same instant
ScannedSame ==
    LET v == Receiver(codec.value)
        w == codec.res.dst.v
    IN  /\ ~codec.res.panic
        /\ codec.res.err = NoErr
        /\ w.Valid
        /\ w.InfinityModifier = v.InfinityModifier
        /\ v.InfinityModifier = None => w.Time = v.Time

\* C6 as claimed: the binary round trip returns every Valid Timestamptz
\* that is an infinity or a finite whole-microsecond instant whose offset
\* from 2000-01-01 fits an int64.
C6_BinaryRoundTripEveryRepresentableOffset ==
    (/\ BinaryTimestamptzRoundTrip
     /\ LET v == Receiver(codec.value)
        IN  \/ v.InfinityModifier \in {Infinity, NegativeInfinity}
            \/ /\ v.InfinityModifier = None
               /\ v.Time.nsec % 1000 = 0
               /\ OffsetRepresentable(v.Time))
      => ScannedSame

\* C6: the binary round trip returns every Valid Timestamptz that is an
\* infinity or a finite whole-microsecond instant whose offset from
\* 2000-01-01 fits an int64 and is neither 2^63-1 nor -2^63, the offsets
\* that stand for the infinities.
C6_BinaryRoundTripExceptSentinelOffsets ==
    (/\ BinaryTimestamptzRoundTrip
     /\ LET v == Receiver(codec.value)
        IN  \/ v.InfinityModifier \in {Infinity, NegativeInfinity}
            \/ /\ v.InfinityModifier = None
               /\ v.Time.nsec % 1000 = 0
               /\ OffsetRepresentable(v.Time)
               /\ v.Time \notin {PlusSentinelInstant, MinusSentinelInstant})
      => ScannedSame

\* a finite instant next to the negative sentinel, whose seconds times 10^6
\* overflow an int64 before the epoch shift brings the offset back in range,
\* has made the round trip
C6_Witness ==
    /\ BinaryTimestamptzRoundTrip
    /\ codec.value =
           MkTimestamptz(MkTime(MinusSentinelInstant.sec,
                                MinusSentinelInstant.nsec + 1000), None, TRUE)
    /\ codec.enc.buf.b = <<128, 0, 0, 0, 0, 0, 0, 1>>
    /\ codec.res.dst.v = codec.value

\* the 8 bytes of a payload as an int64: the first byte the most significant
BytesAsInt64(bs) == [i \in 1..8 |-> bs[9 - i]]

\* C7: the binary encode plan appends, for a Valid Timestamptz, exactly 8
\* bytes: 7F FF FF FF FF FF FF FF for Infinity and 80 00 00 00 00 00 00 00
\* for NegativeInfinity whatever the Time, and for a finite value the
\* big-endian int64 seconds * 10^6 + nanoseconds / 1000 - 946684800 * 10^6.
C7_BinaryEncodingOfTimestamptz ==
    (/\ codec.op = "Encode"
     /\ codec.plan = "encodePlanTimestamptzCodecBinary"
     /\ Receiver(codec.value).Valid)
      => LET v    == Receiver(codec.value)
             n    == Len(codec.buf.b)
             out  == codec.res.buf.b
             tail == SubSeq(out, n + 1, Len(out))
         IN  /\ ~codec.res.panic
             /\ codec.res.err = NoErr
             /\ ~codec.res.buf.isnil
             /\ Len(out) = n + 8
             /\ SubSeq(out, 1, n) = codec.buf.b
             /\ v.InfinityModifier = Infinity
                  => tail = <<127, 255, 255, 255, 255, 255, 255, 255>>
             /\ v.InfinityModifier = NegativeInfinity
                  => tail = <<128, 0, 0, 0, 0, 0, 0, 0>>
             /\ v.InfinityModifier = None
                  => U64Add(BytesAsInt64(tail),
                            U64MulSmall(I64FromInt(946684800), 1000000))
                     = U64Add(U64MulSmall(v.Time.sec, 1000000),
                              I64FromInt(v.Time.nsec \div 1000))
             /\ (v.InfinityModifier = None /\ v.Time = SampleTime)
                  => tail = <<0, 0, 0, 0, 0, 22, 227, 96>>
             /\ (v.InfinityModifier = None /\ v.Time = MkTime(I64FromInt(0), 0))
                  => tail = <<255, 252, 162, 254, 196, 200, 32, 0>>

\* +infinity with a Time payload set, appended to a buffer that holds bytes
C7_Witness ==
    /\ codec.op = "Encode"
    /\ codec.plan = "encodePlanTimestamptzCodecBinary"
    /\ codec.value = MkTimestamptz(SampleTime, Infinity, TRUE)
    /\ codec.buf = B(<<9, 9>>)
    /\ codec.res.buf.b = <<9, 9, 127, 255, 255, 255, 255, 255, 255, 255>>

BinaryScanPlans ==
    {"scanPlanBinaryBoolToBool", "scanPlanBinaryBoolToBoolScanner",
     "scanPlanBinaryFloat8ToFloat64", "scanPlanBinaryFloat8ToFloat64Scanner",
     "scanPlanBinaryFloat8ToInt64Scanner",
     "scanPlanBinaryTimestamptzToTimestamptzScanner"}

\* the width of the codec's binary form
Width(c) == IF c = "BoolCodec" THEN 1 ELSE 8

\* C8: a binary scan plan of bool (width 1), float8 (width 8) or
\* timestamptz (width 8), given a non-nil payload of another length,
\* returns the invalid-length error and leaves the target as it was.
C8_WrongLengthIsAnErrorAndTargetKept ==
    (/\ codec.op = "Scan"
     /\ codec.plan \in BinaryScanPlans
     /\ ~codec.src.isnil
     /\ Len(codec.src.b) # Width(codec.codec))
      => /\ ~codec.res.panic
         /\ codec.res.err = ErrInvalidLength
         /\ codec.res.dst = codec.dst

\* two bytes, the first of which would have changed the native bool
C8_Witness ==
    /\ codec.op = "Scan"
    /\ codec.plan = "scanPlanBinaryBoolToBool"
    /\ codec.src = B(<<1, 1>>)
    /\ codec.dst = Target("*bool", BoolV(FALSE))
    /\ codec.res.err = ErrInvalidLength

\* C9: scanning a nil payload into a *bool by BoolCodec or a *float64 by
\* Float8Codec, text or binary, returns an error and leaves the variable
\* as it was; scanning it into a BoolScanner returns no error and delivers
\* Bool{Valid: false}.
C9_NullIntoNativeIsAnErrorIntoScannerInvalid ==
    (codec.op = "Scan" /\ codec.src.isnil)
      => /\ codec.dst.k \in {"*bool", "*float64"}
              => /\ ~codec.res.panic
                 /\ codec.res.err = ErrNullNotAllowed
                 /\ codec.res.dst = codec.dst
         /\ (codec.codec = "BoolCodec" /\ codec.dst.k = "*Bool")
              => /\ ~codec.res.panic
                 /\ codec.res.err = NoErr
                 /\ codec.res.dst.v = MkBool(FALSE, FALSE)

\* NULL in text format into a *bool that holds true
C9_Witness ==
    /\ codec.op = "Scan"
    /\ codec.plan = "scanPlanTextAnyToBool"
    /\ codec.src.isnil
    /\ codec.dst = Target("*bool", BoolV(TRUE))
    /\ codec.res.err = ErrNullNotAllowed

\* C10: a scan plan applied to a target of another shape than the one it
\* was selected for returns ErrScanTargetTypeChanged, does not panic and
\* leaves the target as it was.
C10_ChangedTargetIsAnErrorValue ==
    codec.op = "ScanChanged"
      => /\ ~codec.res.panic
         /\ codec.res.err = ErrScanTargetTypeChanged
         /\ codec.res.dst = codec.dst
=============================================================================
